---- MODULE Spec2Model ----
(***************************************************************************)
(* A model of libdwarf's ELF object loader (dwarf_elf_load_headers.c):     *)
(* the access object built by dwarf_construct_elf_access and the loader    *)
(* entry points _dwarf_load_elf_header, _dwarf_load_elf_sectheaders,       *)
(* _dwarf_load_elf_symstr, _dwarf_load_elf_symtab_symbols and              *)
(* _dwarf_load_elf_relx, run against an ELF file whose header, section     *)
(* table, string table and SHT_GROUP payloads are drawn from bounded sets. *)
(***************************************************************************)
EXTENDS Naturals, Sequences, FiniteSets, TLC

VARIABLES
    file,     \* the object file: size, byte order and the bytes the loader reads
    host,     \* byte order of the machine the library was built for
    ep,       \* the access object (dwarf_elf_object_access_internals_t)
    pc,       \* how far the caller has driven the loader
    last,     \* the last entry-point call: name, argument, result, errcode writes, reads
    errcode,  \* the caller's int that every entry point receives as int *errcode
    sessions, \* the sessions (Dwarf_Debug) the library has handed out
    errors    \* the error objects (Dwarf_Error) the library has handed out

vars == <<file, host, ep, pc, last, errcode, sessions, errors>>

(***************************************************************************)
(* Bounds of the model.                                                    *)
(***************************************************************************)
\* Number of section-table slots filled from the section templates; the
\* table also holds the null section 0 and the section-name string table.
NumSections == 3
\* The environment fails at most one read or one allocation of a call: a
\* read up to the MaxReadFault-th, an allocation up to the MaxAllocFault-th.
MaxReadFault == 3
MaxAllocFault == 5
\* The sessions and the error objects one caller obtains.
MaxSessions == 2
MaxErrors == 1

(***************************************************************************)
(* Dwarf_Unsigned: an unsigned 64-bit integer, kept as four 16-bit limbs,  *)
(* least significant first, so that sums and products wrap at 2^64 as the  *)
(* C arithmetic does.                                                      *)
(***************************************************************************)
Base == 2^16

\* The Dwarf_Unsigned holding the small number n (n < 2^31).
U(n) == <<n % Base, (n \div Base) % Base, 0, 0>>

IsSmall(v) == v[3] = 0 /\ v[4] = 0 /\ v[2] < 2^15

\* The number a small Dwarf_Unsigned holds.
N(v) == v[1] + Base * v[2]

Lt(a, b) ==
    \/ a[4] < b[4]
    \/ a[4] = b[4] /\ a[3] < b[3]
    \/ a[4] = b[4] /\ a[3] = b[3] /\ a[2] < b[2]
    \/ a[4] = b[4] /\ a[3] = b[3] /\ a[2] = b[2] /\ a[1] < b[1]

Le(a, b) == a = b \/ Lt(a, b)
Gt(a, b) == Lt(b, a)
Ge(a, b) == Le(b, a)

\* a + b with its carry out of bit 63: <<sum mod 2^64, carry>>.
AddWithCarry(a, b) ==
    LET s1 == a[1] + b[1]
        s2 == a[2] + b[2] + (s1 \div Base)
        s3 == a[3] + b[3] + (s2 \div Base)
        s4 == a[4] + b[4] + (s3 \div Base)
    IN  << <<s1 % Base, s2 % Base, s3 % Base, s4 % Base>>, s4 \div Base >>

\* C's a + b on Dwarf_Unsigned: the sum modulo 2^64.
Add(a, b) == AddWithCarry(a, b)[1]

\* a * k with the part that overflows 64 bits, for k < 2^15.
MulWithCarry(a, k) ==
    LET p1 == a[1] * k
        p2 == a[2] * k + (p1 \div Base)
        p3 == a[3] * k + (p2 \div Base)
        p4 == a[4] * k + (p3 \div Base)
    IN  << <<p1 % Base, p2 % Base, p3 % Base, p4 % Base>>, p4 \div Base >>

\* C's a * k on Dwarf_Unsigned: the product modulo 2^64.
Mul(a, k) == MulWithCarry(a, k)[1]

\* The product modulo 2^64 for k < 2^16.
Mul16(a, k) == Add(Mul(Mul(a, k \div 256), 256), Mul(a, k % 256))

\* C's a / k and a % k on Dwarf_Unsigned, for 0 < k < 2^15.
DivMod(a, k) ==
    LET c4 == a[4]
        c3 == (c4 % k) * Base + a[3]
        c2 == (c3 % k) * Base + a[2]
        c1 == (c2 % k) * Base + a[1]
    IN  << <<c1 \div k, c2 \div k, c3 \div k, c4 \div k>>, c1 % k >>

Div(a, k) == DivMod(a, k)[1]

\* Whether a + b <= c in exact (unbounded) arithmetic.
ExactSumLe(a, b, c) ==
    LET r == AddWithCarry(a, b) IN r[2] = 0 /\ Le(r[1], c)

(***************************************************************************)
(* Bytes.  A field of the file is a sequence of bytes in file order.       *)
(***************************************************************************)
Reverse(s) == [i \in 1..Len(s) |-> s[Len(s) + 1 - i]]

ByteAt(s, i) == IF i <= Len(s) THEN s[i] ELSE 0

\* The value of at most 8 bytes read least significant byte first.
LEval(s) ==
    << ByteAt(s, 1) + 256 * ByteAt(s, 2), ByteAt(s, 3) + 256 * ByteAt(s, 4),
       ByteAt(s, 5) + 256 * ByteAt(s, 6), ByteAt(s, 7) + 256 * ByteAt(s, 8) >>

\* The n bytes of v, least significant byte first.
LEbytes(v, n) ==
    LET all == << v[1] % 256, v[1] \div 256, v[2] % 256, v[2] \div 256,
                  v[3] % 256, v[3] \div 256, v[4] % 256, v[4] \div 256 >>
    IN  SubSeq(all, 1, n)


(***************************************************************************)
(* Status values and the ELF constants the loader tests.                   *)
(***************************************************************************)
DW_DLV_OK == "DW_DLV_OK"
DW_DLV_NO_ENTRY == "DW_DLV_NO_ENTRY"
DW_DLV_ERROR == "DW_DLV_ERROR"

SHT_NULL == 0
SHT_PROGBITS == 1
SHT_SYMTAB == 2
SHT_STRTAB == 3
SHT_RELA == 4
SHT_NOBITS == 8
SHT_REL == 9
SHT_GROUP == 17
SHF_GROUP == 512
DWARF_32BIT_SIZE == 4
DW_GROUPNUMBER_ANY == 0
DW_GROUPNUMBER_BASE == 1
DW_GROUPNUMBER_DWO == 2
\* The first number handed to a SHT_GROUP (COMDAT) group.
FirstComdatGroupNumber == 3

\* sizeof of the on-disk records, by offset size.
SizeofEhdr(offsetsize) == IF offsetsize = 32 THEN 52 ELSE 64
SizeofShdr(offsetsize) == IF offsetsize = 32 THEN 40 ELSE 64
SizeofSym(offsetsize) == IF offsetsize = 32 THEN 16 ELSE 24

(***************************************************************************)
(* Strings.  A C string is a sequence of one-character strings; NUL is     *)
(* the terminating byte.                                                   *)
(***************************************************************************)
NUL == ""

Name_rela_debug_info == <<".", "r", "e", "l", "a", ".", "d", "e", "b", "u", "g", "_", "i", "n", "f", "o">>
Name_rel_debug_info == <<".", "r", "e", "l", ".", "d", "e", "b", "u", "g", "_", "i", "n", "f", "o">>
Name_debug_info_dwo == <<".", "d", "e", "b", "u", "g", "_", "i", "n", "f", "o", ".", "d", "w", "o">>
Name_rela_text == <<".", "r", "e", "l", "a", ".", "t", "e", "x", "t">>
Name_group == <<".", "g", "r", "o", "u", "p">>
Name_symtab == <<".", "s", "y", "m", "t", "a", "b">>
Name_shstrtab == <<".", "s", "h", "s", "t", "r", "t", "a", "b">>
Name_debug_info == <<".", "d", "e", "b", "u", "g", "_", "i", "n", "f", "o">>
Name_text == <<".", "t", "e", "x", "t">>
Name_strtab == <<".", "s", "t", "r", "t", "a", "b">>
Name_dwo == <<".", "d", "w", "o">>
Name_dynsym == <<".", "d", "y", "n", "s", "y", "m">>
Name_dynstr == <<".", "d", "y", "n", "s", "t", "r">>
Name_dynamic == <<".", "d", "y", "n", "a", "m", "i", "c">>
Name_rel == <<".", "r", "e", "l">>
Name_rela_dot == <<".", "r", "e", "l", "a", ".">>
Name_rel_dot == <<".", "r", "e", "l", ".">>
Name_debug_ == <<".", "d", "e", "b", "u", "g", "_">>
Name_zdebug_ == <<".", "z", "d", "e", "b", "u", "g", "_">>
Name_eh_frame == <<".", "e", "h", "_", "f", "r", "a", "m", "e">>
Name_gdb_index == <<".", "g", "d", "b", "_", "i", "n", "d", "e", "x">>

\* strlen: the characters of the string that starts at 0-based offset off
\* of data, up to the first NUL (or the end of data).
RECURSIVE CStr(_, _)
CStr(data, off) ==
    IF off >= Len(data) \/ data[off + 1] = NUL THEN <<>>
    ELSE <<data[off + 1]>> \o CStr(data, off + 1)

\* !strncmp(s, q, strlen(q)): s starts with q.
StartsWith(s, q) == Len(s) >= Len(q) /\ SubSeq(s, 1, Len(q)) = q


(***************************************************************************)
(* Pointers.  A pointer is the empty sequence (a null pointer) or a        *)
(* one-element sequence holding the object it points to.                   *)
(***************************************************************************)
NULL == <<>>
PtrTo(x) == <<x>>
IsNull(p) == Len(p) = 0
Deref(p) == p[1]

(***************************************************************************)
(* The context of one entry-point call: the access object as changed so    *)
(* far, the values written through int *errcode, the file reads made, the  *)
(* allocations made, the file ranges it examined before reading, and what  *)
(* the environment does to this call: which                                *)
(* read and which allocation fails (0: none) and what an out-of-bounds     *)
(* read of the heap returns.                                               *)
(***************************************************************************)
NewCall(e, flt) ==
    [ ep |-> e, errs |-> <<>>, reads |-> <<>>, ranges |-> <<>>, nalloc |-> 0,
      fault |-> flt, wild |-> <<>>, steps |-> <<>>, rets |-> <<>>,
      gs_call |-> <<>> ]

\* *errcode = code;
SetErr(c, code) == [c EXCEPT !.errs = Append(@, code)]

\* The result of a function: its return value and the context it leaves.
Ret(res, c) == [res |-> res, c |-> c]
\* A failure that returns DW_DLV_ERROR and leaves *errcode alone.
Fail_without_errcode(c, code) == Ret(DW_DLV_ERROR, c)

Fail(c, code) == Ret(DW_DLV_ERROR, SetErr(c, code))

\* malloc/calloc: <<whether it returned non-null, the context afterwards>>.
Alloc(c) ==
    LET c2 == [c EXCEPT !.nalloc = @ + 1]
    IN  << c2.nalloc # c.fault.al, c2 >>

\* The loader is about to test the file range (offset, size) of what.
Checked(c, what, offset, size) ==
    [c EXCEPT !.ranges = Append(@, [what |-> what, offset |-> offset, size |-> size])]

\* A loader step that ran, for the order of the steps of one call.
Step(c, name) == [c EXCEPT !.steps = Append(@, name)]
\* The status a step returned to the loader (res = step(...)).
StepRet(r) == Ret(r.res, [r.c EXCEPT !.rets = Append(@, r.res)])

(***************************************************************************)
(* RRMOA (_dwarf_object_read_random): read size bytes at offset.  It       *)
(* refuses a range that does not lie in the file and reports a failed      *)
(* seek or read; what it read is taken from the file by the caller.        *)
(***************************************************************************)
RRMOA(c, what, offset, size) ==
    LET c2 == [c EXCEPT !.reads = Append(@, [what |-> what, offset |-> offset,
                                              size |-> size])]
    IN  IF Ge(offset, c.ep.f_filesize)
        THEN Fail(c2, "DW_DLE_SEEK_OFF_END")
        ELSE IF ~ExactSumLe(offset, size, c.ep.f_filesize)
        THEN Fail(c2, "DW_DLE_READ_OFF_END")
        ELSE IF Len(c2.reads) = c.fault.rd
        THEN Fail(c2, "DW_DLE_READ_ERROR")
        ELSE Ret(DW_DLV_OK, c2)

\* ASNAR(func, t, s): t = 0, then func copies the bytes s into the low-order
\* end of t.  memcpy keeps the bytes in host order; _dwarf_memcpy_swap_bytes
\* reverses them.
ASNAR(func, s) ==
    IF (func = "memcpy") = (host = "little") THEN LEval(s) ELSE LEval(Reverse(s))

(***************************************************************************)
(* Section names.                                                          *)
(***************************************************************************)
\* _dwarf_ignorethissection: sections that never hold DWARF data.
IgnoredNames ==
    { Name_text, Name_rela_text,
      <<".", "r", "e", "l", ".", "t", "e", "x", "t">>, <<".", "b", "s", "s">>, <<".", "d", "a", "t", "a">>,
      <<".", "r", "e", "l", "a", ".", "d", "a", "t", "a">>, <<".", "r", "e", "l", ".", "d", "a", "t", "a">>, <<".", "c", "o", "m", "m", "e", "n", "t">> }

_dwarf_ignorethissection(sname) == sname \in IgnoredNames

\* The name test without the names of relocation sections.
section_is_dwarf_debug_names_only(sname) ==
    IF _dwarf_ignorethissection(sname) THEN FALSE
    ELSE \/ StartsWith(sname, Name_debug_)
         \/ StartsWith(sname, Name_zdebug_)
         \/ sname = Name_eh_frame
         \/ StartsWith(sname, Name_gdb_index)

_dwarf_load_elf_section_is_dwarf(sname) ==
    IF _dwarf_ignorethissection(sname) THEN FALSE
    ELSE IF StartsWith(sname, Name_rel)
    THEN StartsWith(sname, Name_rela_dot) \/ StartsWith(sname, Name_rel_dot)
    ELSE \/ StartsWith(sname, Name_debug_)
         \/ StartsWith(sname, Name_zdebug_)
         \/ sname = Name_eh_frame
         \/ StartsWith(sname, Name_gdb_index)

is_empty_section(type) == type = U(SHT_NOBITS) \/ type = U(SHT_NULL)

string_endswith(n, q) ==
    IF Len(n) < Len(q) THEN FALSE
    ELSE SubSeq(n, Len(n) - Len(q) + 1, Len(n)) = q

elf_sht_groupsec(type, sname) == type = U(SHT_GROUP) \/ sname = Name_group

\* x & y on 16-bit limbs, bit by bit.
RECURSIVE And16(_, _, _)
And16(x, y, n) ==
    IF n = 0 THEN 0
    ELSE (x % 2) * (y % 2) + 2 * And16(x \div 2, y \div 2, n - 1)

BitAnd(a, b) == [i \in 1..4 |-> And16(a[i], b[i], 16)]

elf_flagmatches(flagsword, flag) == BitAnd(flagsword, flag) = flag

\* The name a section header's gh_namestring points at.
PlaceholderName == <<"<", "I", "n", "v", "a", "l", "i", "d", " ", "s", "h", "_", "n", "a", "m", "e", " ", "v", "a", "l", "u", "e", ".", " ", "C", "o", "r", "r", "u", "p", "t", " ", "E", "l", "f", ".", ">">>

\* The bytes of the buffer ep->f_elf_shstrings_data holds: those of the
\* string section it was read from.
StringsOf(e) ==
    IF IsNull(e.f_elf_shstrings_data) \/ Deref(e.f_elf_shstrings_data).sec >= Len(file.chars)
    THEN <<>>
    ELSE file.chars[Deref(e.f_elf_shstrings_data).sec + 1]

\* The C string psh->gh_namestring points to.
NameString(e, sh) ==
    IF sh.gh_namestring.kind = "table"
    THEN IF IsSmall(sh.gh_namestring.off)
         THEN CStr(StringsOf(e), N(sh.gh_namestring.off))
         ELSE <<>>
    ELSE PlaceholderName


(***************************************************************************)
(* The file as the loader sees it.  file.shdr[i + 1] is the section-header *)
(* record read for slot i, file.chars[i + 1] the bytes of section i read   *)
(* as characters and file.words[i + 1] the same bytes read as 4-byte       *)
(* words; bytes past what the file describes read as zero.                 *)
(***************************************************************************)
ZeroShdr ==
    [ sh_name |-> <<0, 0, 0, 0>>, sh_type |-> <<0, 0, 0, 0>>, sh_flags |-> <<0, 0, 0, 0>>,
      sh_offset |-> <<0, 0, 0, 0>>, sh_size |-> <<0, 0, 0, 0>>, sh_link |-> <<0, 0, 0, 0>>,
      sh_info |-> <<0, 0, 0, 0>>, sh_entsize |-> <<0, 0, 0, 0>> ]

RawShdr(i) == IF i < Len(file.shdr) THEN file.shdr[i + 1] ELSE ZeroShdr

\* Byte k (0-based) of section sec read as a character.
CharOfSection(sec, k) ==
    IF sec < Len(file.chars) /\ k < Len(file.chars[sec + 1])
    THEN file.chars[sec + 1][k + 1] ELSE NUL

\* Word k (0-based) of section sec: four bytes in file order.
WordOfSection(sec, k) ==
    IF sec < Len(file.words) /\ k < Len(file.words[sec + 1])
    THEN file.words[sec + 1][k + 1] ELSE <<0, 0, 0, 0>>

(***************************************************************************)
(* _dwarf_load_elf_header                                                  *)
(***************************************************************************)
\* generic_ehdr_from_32 and generic_ehdr_from_64: the fields differ in
\* width only, which the byte sequences of the file carry.
generic_ehdr_from(c, offsetsize) ==
    LET f == c.ep.f_copy_word
        ehdr == [ ge_machine   |-> ASNAR(f, file.ehdr.e_machine),
                  ge_shoff     |-> ASNAR(f, file.ehdr.e_shoff),
                  ge_shentsize |-> ASNAR(f, file.ehdr.e_shentsize),
                  ge_shnum     |-> ASNAR(f, file.ehdr.e_shnum),
                  ge_shstrndx  |-> ASNAR(f, file.ehdr.e_shstrndx) ]
    IN  Ret(DW_DLV_OK,
            [c EXCEPT !.ep.f_machine = ehdr.ge_machine,
                      !.ep.f_ehdr = PtrTo(ehdr),
                      !.ep.f_loc_ehdr_g_count = 1])

elf_load_elf_header(c, offsetsize) ==
    LET rd == RRMOA(c, "ehdr", U(0), U(SizeofEhdr(offsetsize)))
    IN  IF rd.res # DW_DLV_OK THEN rd
        ELSE LET al == Alloc(rd.c)
             IN  IF ~al[1] THEN Fail(al[2], "DW_DLE_ALLOC_FAIL")
                 ELSE generic_ehdr_from(al[2], offsetsize)

elf_load_elf_header32(c) == elf_load_elf_header(c, 32)
elf_load_elf_header64(c) == elf_load_elf_header(c, 64)

\* The on-disk structs are laid out to the sizes of elf.h's.
validate_struct_sizes(c) == Ret(DW_DLV_OK, c)

\* A header load that takes every offset size but 64 for 32.
load_elf_header_any_offsetsize(c) ==
    IF c.ep.f_offsetsize = 64 THEN elf_load_elf_header64(c)
    ELSE elf_load_elf_header32(c)

_dwarf_load_elf_header(c) ==
    LET offsetsize == c.ep.f_offsetsize
        v == validate_struct_sizes(c)
    IN  IF v.res # DW_DLV_OK THEN v
        ELSE IF offsetsize = 32 THEN elf_load_elf_header32(c)
        ELSE IF offsetsize = 64 THEN elf_load_elf_header64(c)
        ELSE Fail(c, "DW_DLE_OFFSET_SIZE")

(***************************************************************************)
(* Section headers                                                         *)
(***************************************************************************)
generic_shdr_of(f, i) ==
    LET psh == RawShdr(i)
        type == ASNAR(f, psh.sh_type)
        info == ASNAR(f, psh.sh_info)
    IN  [ gh_secnum |-> i,
          gh_name |-> ASNAR(f, psh.sh_name),
          gh_namestring |-> [kind |-> "null", off |-> 0],
          gh_type |-> type,
          gh_flags |-> ASNAR(f, psh.sh_flags),
          gh_offset |-> ASNAR(f, psh.sh_offset),
          gh_size |-> ASNAR(f, psh.sh_size),
          gh_link |-> ASNAR(f, psh.sh_link),
          gh_info |-> info,
          gh_entsize |-> ASNAR(f, psh.sh_entsize),
          gh_reloc_target_secnum |->
              IF type = U(SHT_REL) \/ type = U(SHT_RELA) THEN info ELSE U(0),
          gh_section_group_number |-> 0,
          gh_is_dwarf |-> FALSE,
          gh_sht_group_array |-> NULL,
          gh_sht_group_array_count |-> 0,
          gh_rels |-> NULL,
          gh_relcount |-> 0 ]

\* generic_shdr_from_shdr32 and generic_shdr_from_shdr64.
generic_shdr_from_shdr(c, offset, entsize, count) ==
    LET a1 == Alloc(c)
    IN  IF ~a1[1] THEN Fail(a1[2], "DW_DLE_ALLOC_FAIL")
        ELSE LET a2 == Alloc(a1[2])
             IN  IF ~a2[1] THEN Fail(a2[2], "DW_DLE_ALLOC_FAIL")
                 ELSE LET rd == RRMOA(a2[2], "shdr", offset, Mul(count, N(entsize)))
                      IN  IF rd.res # DW_DLV_OK THEN rd
                          ELSE Ret(DW_DLV_OK,
                                   [rd.c EXCEPT
                                      !.ep.f_shdr = [i \in 1..N(count) |->
                                          generic_shdr_of(c.ep.f_copy_word, i - 1)],
                                      !.ep.f_loc_shdr_g_count = N(count)])

\* elf_load_sectheaders32 and elf_load_sectheaders64.
elf_load_sectheaders(c, offsetsize, offset, entsize, count) ==
    LET filesize == c.ep.f_filesize
        ck == Checked(c, "shdr", offset, Mul16(count, N(entsize)))
    IN  IF count = U(0) THEN Ret(DW_DLV_NO_ENTRY, c)
        ELSE IF Lt(entsize, U(SizeofShdr(offsetsize)))
        THEN Fail(c, "DW_DLE_SECTION_SIZE_ERROR")
        ELSE IF \/ Gt(offset, filesize)
                \/ Gt(entsize, U(200))
                \/ Gt(count, filesize)
                \/ Gt(Add(Mul(count, N(entsize)), offset), filesize)
        THEN Fail(ck, "DW_DLE_SECTION_SIZE_OR_OFFSET_LARGE")
        ELSE generic_shdr_from_shdr(ck, offset, entsize, count)

elf_load_sectheaders32(c, offset, entsize, count) ==
    elf_load_sectheaders(c, 32, offset, entsize, count)
elf_load_sectheaders64(c, offset, entsize, count) ==
    elf_load_sectheaders(c, 64, offset, entsize, count)

\* Section i of the loaded table (ep->f_shdr + i).
Sec(e, i) == e.f_shdr[i + 1]

\* A range test that looks at the 64-bit sum alone.
SectstringsRangeBad_sum_only(secoffset, size, filesize) ==
    Gt(Add(secoffset, size), filesize)

\* The range test of _dwarf_elf_load_sectstrings.
SectstringsRangeBad(secoffset, size, filesize) ==
    \/ Ge(secoffset, filesize)
    \/ Gt(size, filesize)
    \/ Gt(Add(secoffset, size), filesize)

_dwarf_elf_load_sectstrings(c, stringsection) ==
    LET cz == [c EXCEPT !.ep.f_elf_shstrings_length = U(0)]
        e == cz.ep
    IN  IF Ge(stringsection, Deref(e.f_ehdr).ge_shnum)
        THEN Fail(cz, "DW_DLE_SECTION_INDEX_BAD")
        ELSE
        LET psh == Sec(e, N(stringsection))
            secoffset == psh.gh_offset
            c0 == Checked(cz, "shstrings", secoffset, psh.gh_size)
        IN  IF is_empty_section(psh.gh_type)
            THEN Fail(cz, "DW_DLE_ELF_STRING_SECTION_MISSING")
            ELSE IF SectstringsRangeBad(secoffset, psh.gh_size, e.f_filesize)
            THEN Fail(c0, "DW_DLE_SECTION_SIZE_OR_OFFSET_LARGE")
            ELSE
            LET grow == Gt(psh.gh_size, e.f_elf_shstrings_max)
                al == IF grow THEN Alloc(c0) ELSE <<TRUE, c0>>
                c1 == IF grow
                      THEN [al[2] EXCEPT
                              !.ep.f_elf_shstrings_data =
                                  IF al[1] THEN PtrTo([sec |-> N(stringsection)]) ELSE NULL,
                              !.ep.f_elf_shstrings_max =
                                  IF al[1] THEN psh.gh_size ELSE U(0)]
                      ELSE c0
            IN  IF ~al[1] THEN Fail(c1, "DW_DLE_ALLOC_FAIL")
                ELSE RRMOA([c1 EXCEPT !.ep.f_elf_shstrings_length = psh.gh_size],
                           "shstrings", secoffset, psh.gh_size)


(***************************************************************************)
(* Section names                                                           *)
(***************************************************************************)
\* The for loop of validate_section_name_string: whether one of the bytes
\* string_loc_index .. section_length - 1 of strings is NUL.
HasNulBefore(strings, string_loc_index, section_length) ==
    IF ~IsSmall(string_loc_index) \/ N(string_loc_index) >= Len(strings)
    THEN TRUE
    ELSE \/ \E k \in N(string_loc_index)..(Len(strings) - 1) :
                Lt(U(k), section_length) /\ strings[k + 1] = NUL
         \/ Lt(U(Len(strings)), section_length)

\* A validation that tests the offset and does not look for the NUL.
validate_section_name_offset_only(c, section_length, string_loc_index, strings) ==
    IF Le(section_length, string_loc_index)
    THEN Fail(c, "DW_DLE_SECTION_STRING_OFFSET_BAD")
    ELSE Ret(DW_DLV_OK, c)

validate_section_name_string(c, section_length, string_loc_index, strings) ==
    IF Le(section_length, string_loc_index)
    THEN Fail(c, "DW_DLE_SECTION_STRING_OFFSET_BAD")
    ELSE IF HasNulBefore(strings, string_loc_index, section_length)
    THEN Ret(DW_DLV_OK, c)
    ELSE Fail(c, "DW_DLE_SECTION_STRING_OFFSET_BAD")

RECURSIVE NamestringLoop(_, _)
NamestringLoop(c, i) ==
    IF i >= c.ep.f_loc_shdr_g_count THEN Ret(DW_DLV_OK, c)
    ELSE LET gshdr == Sec(c.ep, i)
             v == validate_section_name_string(c, c.ep.f_elf_shstrings_length,
                      gshdr.gh_name, StringsOf(c.ep))
         IN  IF v.res # DW_DLV_OK
             THEN Ret(v.res, [v.c EXCEPT !.ep.f_shdr[i + 1].gh_namestring =
                                  [kind |-> "placeholder", off |-> U(0)]])
             ELSE NamestringLoop(
                      [c EXCEPT !.ep.f_shdr[i + 1].gh_namestring =
                           [kind |-> "table", off |-> gshdr.gh_name]], i + 1)

_dwarf_elf_load_sect_namestring(c) == NamestringLoop(c, 0)

(***************************************************************************)
(* Symbol sections                                                         *)
(***************************************************************************)
validate_links(c, knownsect, string_sect) ==
    IF knownsect = 0 THEN Ret(DW_DLV_OK, c)
    ELSE IF string_sect = 0 THEN Fail(c, "DW_DLE_ELF_STRING_SECTION_ERROR")
    ELSE IF U(string_sect) # Sec(c.ep, knownsect).gh_link
    THEN Fail(c, "DW_DLE_ELF_SECTION_LINK_ERROR")
    ELSE Ret(DW_DLV_OK, c)

RECURSIVE FindSymLoop(_, _)
FindSymLoop(e, i) ==
    IF i >= e.f_loc_shdr_g_count THEN e
    ELSE LET psh == Sec(e, i)
             name == NameString(e, psh)
         IN  FindSymLoop(
               IF is_empty_section(psh.gh_type) THEN e
               ELSE IF name = Name_dynsym
               THEN [e EXCEPT !.f_dynsym_sect_index = i,
                              !.f_loc_dynsym_g_offset = psh.gh_offset]
               ELSE IF name = Name_dynstr
               THEN [e EXCEPT !.f_dynsym_sect_strings_sect_index = i,
                              !.f_dynsym_sect_strings_max = psh.gh_size]
               ELSE IF name = Name_symtab
               THEN [e EXCEPT !.f_symtab_sect_index = i,
                              !.f_loc_symtab_g_offset = psh.gh_offset]
               ELSE IF name = Name_strtab
               THEN [e EXCEPT !.f_symtab_sect_strings_sect_index = i,
                              !.f_symtab_sect_strings_max = psh.gh_size]
               ELSE IF name = Name_dynamic
               THEN [e EXCEPT !.f_dynamic_sect_index = i,
                              !.f_loc_dynamic_g_offset = psh.gh_offset]
               ELSE e,
               i + 1)

_dwarf_elf_find_sym_sections(c) ==
    LET c1 == [c EXCEPT !.ep = FindSymLoop(c.ep, 0)]
    IN  validate_links(c1, c1.ep.f_symtab_sect_index,
                       c1.ep.f_symtab_sect_strings_sect_index)


(***************************************************************************)
(* Section groups                                                          *)
(***************************************************************************)
GroupError(c) == Fail(c, "DW_DLE_ELF_SECTION_GROUP_ERROR")

\* targpsh->gh_section_group_number = ep->f_sg_next_group_number;
GsAssignGroup(c, t) ==
    [c EXCEPT !.ep.f_shdr[t + 1].gh_section_group_number = c.ep.f_sg_next_group_number]

\* A count of the group that does not move on to the next group number.
GsCountGroup_same_number(c, foundone) ==
    IF foundone
    THEN [c EXCEPT !.ep.f_sht_group_type_section_count = @ + 1]
    ELSE c

\* if (foundone) { ++ep->f_sg_next_group_number; ... }
GsCountGroup(c, foundone) ==
    IF foundone
    THEN [c EXCEPT !.ep.f_sg_next_group_number = @ + 1,
                   !.ep.f_sht_group_type_section_count = @ + 1]
    ELSE c

\* A member loop that gives a section already in a group the number of
\* the group that lists it last.
RECURSIVE GsMemberLoop_overwriting(_, _, _, _, _, _)
GsMemberLoop_overwriting(c, s, i, count, grouparray, foundone) ==
    IF i >= count
    THEN [res |-> DW_DLV_OK, c |-> c, grouparray |-> grouparray, foundone |-> foundone]
    ELSE
    LET dblock == WordOfSection(s, i)
        gseca0 == ASNAR("memcpy", dblock)
        gsecb == ASNAR("_dwarf_memcpy_swap_bytes", dblock)
        g_count == U(c.ep.f_loc_shdr_g_count)
        bad == [res |-> DW_DLV_ERROR,
                c |-> Ret(DW_DLV_ERROR, SetErr(c, "DW_DLE_ELF_SECTION_GROUP_ERROR")).c,
                grouparray |-> grouparray, foundone |-> foundone]
    IN  IF gseca0 = U(0) THEN bad
        ELSE IF Gt(gseca0, g_count) /\ Gt(gsecb, g_count) THEN bad
        ELSE
        LET t == IF Gt(gseca0, g_count) THEN N(gsecb) ELSE N(gseca0)
            arr == Append(grouparray, t)
        IN  IF t >= c.ep.f_loc_shdr_g_count
            THEN IF c.fault.heap # 0 THEN bad
                 ELSE GsMemberLoop_overwriting(
                          [c EXCEPT !.wild = @ \o <<[op |-> "read", at |-> t],
                                                    [op |-> "write", at |-> t]>>],
                          s, i + 1, count, arr, TRUE)
            ELSE GsMemberLoop_overwriting(
                     [c EXCEPT !.ep.f_shdr[t + 1].gh_section_group_number =
                                   c.ep.f_sg_next_group_number],
                     s, i + 1, count, arr, TRUE)

\* The for loop of read_gs_section_group over the member words 1..count-1
\* of group section s.  The result carries grouparray and foundone.
\* targpsh = ep->f_shdr + gseca lies past the end of the array of
\* f_loc_shdr.g_count records when gseca equals the count: what the read
\* of its group number finds there is the environment's (c.fault.heap), and
\* the access is recorded in c.wild.
RECURSIVE GsMemberLoop(_, _, _, _, _, _)
GsMemberLoop(c, s, i, count, grouparray, foundone) ==
    IF i >= count
    THEN [res |-> DW_DLV_OK, c |-> c, grouparray |-> grouparray, foundone |-> foundone]
    ELSE
    LET dblock == WordOfSection(s, i)
        gseca0 == ASNAR("memcpy", dblock)
        gsecb == ASNAR("_dwarf_memcpy_swap_bytes", dblock)
        g_count == U(c.ep.f_loc_shdr_g_count)
        bad == [res |-> DW_DLV_ERROR, c |-> GroupError(c).c,
                grouparray |-> grouparray, foundone |-> foundone]
    IN  IF gseca0 = U(0) THEN bad
        ELSE IF Gt(gseca0, g_count) /\ Gt(gsecb, g_count) THEN bad
        ELSE
        LET gseca == IF Gt(gseca0, g_count) THEN gsecb ELSE gseca0
            t == N(gseca)
            arr == Append(grouparray, t)
        IN  IF t >= c.ep.f_loc_shdr_g_count
            THEN LET c1 == [c EXCEPT !.wild = Append(@, [op |-> "read", at |-> t])]
                 IN  IF c.fault.heap # 0
                     THEN [bad EXCEPT !.c = GroupError(c1).c]
                     ELSE GsMemberLoop(
                              [c1 EXCEPT !.wild = Append(@, [op |-> "write", at |-> t])],
                              s, i + 1, count, arr, TRUE)
            ELSE IF Sec(c.ep, t).gh_section_group_number # 0 THEN bad
            ELSE GsMemberLoop(GsAssignGroup(c, t), s, i + 1, count, arr, TRUE)

\* A read that accepts whatever the first word of the group is.
read_gs_section_group_any_flag_word(c, s) ==
    LET psh == Sec(c.ep, s)
        seclen == psh.gh_size
    IN  IF ~IsNull(psh.gh_sht_group_array) THEN Ret(DW_DLV_OK, c)
        ELSE IF Lt(seclen, U(DWARF_32BIT_SIZE)) THEN GroupError(c)
        ELSE
        LET a1 == Alloc(c)
        IN  IF ~a1[1] THEN Fail(a1[2], "DW_DLE_ALLOC_FAIL")
            ELSE IF psh.gh_entsize # U(DWARF_32BIT_SIZE) THEN GroupError(a1[2])
            ELSE IF psh.gh_entsize = U(0) THEN GroupError(a1[2])
            ELSE
            LET count == Div(seclen, N(psh.gh_entsize))
            IN  IF Gt(count, U(c.ep.f_loc_shdr_g_count)) THEN GroupError(a1[2])
                ELSE
                LET rd == RRMOA(a1[2], "group", psh.gh_offset, seclen)
                IN  IF rd.res # DW_DLV_OK THEN rd
                    ELSE
                    LET a2 == Alloc(rd.c)
                        va == ASNAR("memcpy", WordOfSection(s, 0))
                    IN  IF ~a2[1] THEN Fail(a2[2], "DW_DLE_ALLOC_FAIL")
                        ELSE IF FALSE
                        THEN GroupError(a2[2])
                        ELSE
                        LET lp == GsMemberLoop(a2[2], s, 1, N(count), <<1>>, FALSE)
                            c3 == GsCountGroup(lp.c, lp.foundone)
                        IN  IF lp.res # DW_DLV_OK THEN Ret(lp.res, lp.c)
                            ELSE Ret(DW_DLV_OK,
                                     [c3 EXCEPT
                                        !.ep.f_shdr[s + 1].gh_sht_group_array =
                                            PtrTo(lp.grouparray),
                                        !.ep.f_shdr[s + 1].gh_sht_group_array_count =
                                            N(count)])

read_gs_section_group(c, s) ==
    LET psh == Sec(c.ep, s)
        seclen == psh.gh_size
    IN  IF ~IsNull(psh.gh_sht_group_array) THEN Ret(DW_DLV_OK, c)
        ELSE IF Lt(seclen, U(DWARF_32BIT_SIZE)) THEN GroupError(c)
        ELSE
        LET a1 == Alloc(c)
        IN  IF ~a1[1] THEN Fail(a1[2], "DW_DLE_ALLOC_FAIL")
            ELSE IF psh.gh_entsize # U(DWARF_32BIT_SIZE) THEN GroupError(a1[2])
            ELSE IF psh.gh_entsize = U(0) THEN GroupError(a1[2])
            ELSE
            LET count == Div(seclen, N(psh.gh_entsize))
            IN  IF Gt(count, U(c.ep.f_loc_shdr_g_count)) THEN GroupError(a1[2])
                ELSE
                LET rd == RRMOA(a1[2], "group", psh.gh_offset, seclen)
                IN  IF rd.res # DW_DLV_OK THEN rd
                    ELSE
                    LET a2 == Alloc(rd.c)
                        va == ASNAR("memcpy", WordOfSection(s, 0))
                    IN  IF ~a2[1] THEN Fail(a2[2], "DW_DLE_ALLOC_FAIL")
                        ELSE IF va # U(1) /\ va # <<0, 256, 0, 0>>
                        THEN GroupError(a2[2])
                        ELSE
                        LET lp == GsMemberLoop(a2[2], s, 1, N(count), <<1>>, FALSE)
                            c3 == GsCountGroup(lp.c, lp.foundone)
                        IN  IF lp.res # DW_DLV_OK THEN Ret(lp.res, lp.c)
                            ELSE Ret(DW_DLV_OK,
                                     [c3 EXCEPT
                                        !.ep.f_shdr[s + 1].gh_sht_group_array =
                                            PtrTo(lp.grouparray),
                                        !.ep.f_shdr[s + 1].gh_sht_group_array_count =
                                            N(count)])

\* res = read_gs_section_group(ep, psh, errcode): the call, with the object
\* as it was when the latest call began and what that call returned.
\* The object before the call (cc) and the call's result (r) are each bound
\* to one value, so that the call is evaluated once.
GsCall(c, s) ==
    CHOOSE y \in UNION {{Ret(r.res, [r.c EXCEPT !.gs_call =
                                       PtrTo([s |-> s, before |-> cc.ep,
                                              res |-> r.res])])
                          : r \in {read_gs_section_group(cc, s)}}
                        : cc \in {c}} : TRUE

\* Steps A and B of _dwarf_elf_setup_all_section_groups.
RECURSIVE GroupsStepAB(_, _)
GroupsStepAB(c, i) ==
    IF i >= c.ep.f_loc_shdr_g_count THEN Ret(DW_DLV_OK, c)
    ELSE
    LET psh == Sec(c.ep, i)
        name == NameString(c.ep, psh)
    IN  IF is_empty_section(psh.gh_type) THEN GroupsStepAB(c, i + 1)
        ELSE IF ~elf_sht_groupsec(psh.gh_type, name)
        THEN GroupsStepAB(
                 IF elf_flagmatches(psh.gh_flags, U(SHF_GROUP))
                 THEN [c EXCEPT !.ep.f_shf_group_flag_section_count = @ + 1]
                 ELSE c,
                 i + 1)
        ELSE LET r == GsCall(c, i)
             IN  IF r.res # DW_DLV_OK THEN r ELSE GroupsStepAB(r.c, i + 1)

\* Section C putting an ungrouped DWARF section in the .dwo group.
StepCDwarfSection_as_dwo(c, i) ==
    [c EXCEPT !.ep.f_shdr[i + 1].gh_is_dwarf = TRUE,
              !.ep.f_shdr[i + 1].gh_section_group_number =
                  IF @ = 0 THEN DW_GROUPNUMBER_DWO ELSE @]

\* Section C for a section with a DWARF name that does not end in .dwo.
StepCDwarfSection(c, i) ==
    [c EXCEPT !.ep.f_shdr[i + 1].gh_is_dwarf = TRUE,
              !.ep.f_shdr[i + 1].gh_section_group_number =
                  IF @ = 0 THEN DW_GROUPNUMBER_BASE ELSE @]

\* A section C that puts .dwo sections in their group without counting
\* them.
RECURSIVE GroupsStepC_dwo_uncounted(_, _)
GroupsStepC_dwo_uncounted(c, i) ==
    IF i >= c.ep.f_loc_shdr_g_count THEN Ret(DW_DLV_OK, c)
    ELSE
    LET psh == Sec(c.ep, i)
        name == NameString(c.ep, psh)
        marked(g) == [c EXCEPT !.ep.f_shdr[i + 1].gh_is_dwarf = TRUE,
                               !.ep.f_shdr[i + 1].gh_section_group_number = g]
    IN  IF is_empty_section(psh.gh_type) THEN GroupsStepC_dwo_uncounted(c, i + 1)
        ELSE IF elf_sht_groupsec(psh.gh_type, name)
        THEN GroupsStepC_dwo_uncounted(c, i + 1)
        ELSE IF string_endswith(name, Name_dwo)
        THEN IF psh.gh_section_group_number # 0
             THEN Ret(DW_DLV_ERROR, SetErr(c, "DW_DLE_ELF_SECTION_GROUP_ERROR"))
             ELSE GroupsStepC_dwo_uncounted(marked(DW_GROUPNUMBER_DWO), i + 1)
        ELSE IF _dwarf_load_elf_section_is_dwarf(name)
        THEN GroupsStepC_dwo_uncounted(
                 marked(IF psh.gh_section_group_number = 0
                        THEN DW_GROUPNUMBER_BASE ELSE psh.gh_section_group_number),
                 i + 1)
        ELSE GroupsStepC_dwo_uncounted(c, i + 1)

\* Section C of _dwarf_elf_setup_all_section_groups.
RECURSIVE GroupsStepC(_, _)
GroupsStepC(c, i) ==
    IF i >= c.ep.f_loc_shdr_g_count THEN Ret(DW_DLV_OK, c)
    ELSE
    LET psh == Sec(c.ep, i)
        name == NameString(c.ep, psh)
    IN  IF is_empty_section(psh.gh_type) THEN GroupsStepC(c, i + 1)
        ELSE IF elf_sht_groupsec(psh.gh_type, name) THEN GroupsStepC(c, i + 1)
        ELSE IF string_endswith(name, Name_dwo)
        THEN IF psh.gh_section_group_number # 0 THEN GroupError(c)
             ELSE GroupsStepC(
                      [c EXCEPT !.ep.f_shdr[i + 1].gh_is_dwarf = TRUE,
                                !.ep.f_shdr[i + 1].gh_section_group_number =
                                    DW_GROUPNUMBER_DWO,
                                !.ep.f_dwo_group_section_count = @ + 1],
                      i + 1)
        ELSE IF _dwarf_load_elf_section_is_dwarf(name)
        THEN GroupsStepC(StepCDwarfSection(c, i), i + 1)
        ELSE GroupsStepC(c, i + 1)

_dwarf_elf_setup_all_section_groups(c) ==
    LET ab == GroupsStepAB(c, 0)
    IN  IF ab.res # DW_DLV_OK THEN ab ELSE GroupsStepC(ab.c, 0)

\* A load that goes on to the symbol sections whatever the name validation
\* returned.
load_elf_sectheaders_past_bad_names(c) ==
    LET e == c.ep
        r1 == StepRet(IF e.f_offsetsize = 32
              THEN elf_load_sectheaders32(Step(c, "sectheaders"),
                       Deref(e.f_ehdr).ge_shoff, Deref(e.f_ehdr).ge_shentsize,
                       Deref(e.f_ehdr).ge_shnum)
              ELSE elf_load_sectheaders64(Step(c, "sectheaders"),
                       Deref(e.f_ehdr).ge_shoff, Deref(e.f_ehdr).ge_shentsize,
                       Deref(e.f_ehdr).ge_shnum))
    IN  IF e.f_offsetsize # 32 /\ e.f_offsetsize # 64
        THEN Fail(c, "DW_DLE_OFFSET_SIZE")
        ELSE IF r1.res # DW_DLV_OK THEN r1
        ELSE
        LET r2 == StepRet(_dwarf_elf_load_sectstrings(Step(r1.c, "sectstrings"),
                      Deref(r1.c.ep.f_ehdr).ge_shstrndx))
        IN  IF r2.res # DW_DLV_OK THEN r2
            ELSE
            LET r3 == StepRet(_dwarf_elf_load_sect_namestring(
                                  Step(r2.c, "namestring")))
            IN  IF FALSE THEN r3
                ELSE
                LET r4 == StepRet(_dwarf_elf_find_sym_sections(
                                      Step(r3.c, "find_sym_sections")))
                IN  IF r4.res # DW_DLV_OK THEN r4
                    ELSE StepRet(_dwarf_elf_setup_all_section_groups(
                             Step(r4.c, "setup_all_section_groups")))

_dwarf_load_elf_sectheaders(c) ==
    LET e == c.ep
        r1 == StepRet(IF e.f_offsetsize = 32
              THEN elf_load_sectheaders32(Step(c, "sectheaders"),
                       Deref(e.f_ehdr).ge_shoff, Deref(e.f_ehdr).ge_shentsize,
                       Deref(e.f_ehdr).ge_shnum)
              ELSE elf_load_sectheaders64(Step(c, "sectheaders"),
                       Deref(e.f_ehdr).ge_shoff, Deref(e.f_ehdr).ge_shentsize,
                       Deref(e.f_ehdr).ge_shnum))
    IN  IF e.f_offsetsize # 32 /\ e.f_offsetsize # 64
        THEN Fail(c, "DW_DLE_OFFSET_SIZE")
        ELSE IF r1.res # DW_DLV_OK THEN r1
        ELSE
        LET r2 == StepRet(_dwarf_elf_load_sectstrings(Step(r1.c, "sectstrings"),
                      Deref(r1.c.ep.f_ehdr).ge_shstrndx))
        IN  IF r2.res # DW_DLV_OK THEN r2
            ELSE
            LET r3 == StepRet(_dwarf_elf_load_sect_namestring(
                                  Step(r2.c, "namestring")))
            IN  IF r3.res # DW_DLV_OK THEN r3
                ELSE
                LET r4 == StepRet(_dwarf_elf_find_sym_sections(
                                      Step(r3.c, "find_sym_sections")))
                IN  IF r4.res # DW_DLV_OK THEN r4
                    ELSE StepRet(_dwarf_elf_setup_all_section_groups(
                             Step(r4.c, "setup_all_section_groups")))


(***************************************************************************)
(* Symbol strings and symbols                                              *)
(***************************************************************************)
\* A load that allocates as many bytes as the section has.
load_elf_symstr_without_extra_byte(c) ==
    LET e == c.ep
        strsectindex == e.f_symtab_sect_strings_sect_index
        strsectlength == e.f_symtab_sect_strings_max
        strpsh == Sec(e, strsectindex)
        ck == Checked(c, "symstr", strpsh.gh_offset, strsectlength)
        zeroed(cc) == [cc EXCEPT !.ep.f_symtab_sect_strings = NULL,
                                 !.ep.f_symtab_sect_strings_max = U(0),
                                 !.ep.f_symtab_sect_strings_sect_index = 0]
    IN  IF strsectindex = 0 THEN Ret(DW_DLV_NO_ENTRY, c)
        ELSE IF \/ Gt(strsectlength, e.f_filesize)
                \/ Gt(strpsh.gh_offset, e.f_filesize)
                \/ Gt(Add(strsectlength, strpsh.gh_offset), e.f_filesize)
        THEN Fail(ck, "DW_DLE_SECTION_SIZE_OR_OFFSET_LARGE")
        ELSE
        LET al == Alloc(ck)
        IN  IF ~al[1] THEN Fail(zeroed(al[2]), "DW_DLE_ALLOC_FAIL")
            ELSE
            LET c1 == [al[2] EXCEPT !.ep.f_symtab_sect_strings =
                          PtrTo([sec |-> strsectindex, len |-> strsectlength,
                                 size |-> strsectlength])]
                rd == RRMOA(c1, "symstr", strpsh.gh_offset, strsectlength)
            IN  IF rd.res # DW_DLV_OK THEN Ret(rd.res, zeroed(rd.c))
                ELSE Ret(DW_DLV_OK, rd.c)

\* The buffer f_symtab_sect_strings is calloc'ed with size bytes; RRMOA
\* reads the len bytes of section sec into it.
_dwarf_load_elf_symstr(c) ==
    LET e == c.ep
        strsectindex == e.f_symtab_sect_strings_sect_index
        strsectlength == e.f_symtab_sect_strings_max
        strpsh == Sec(e, strsectindex)
        ck == Checked(c, "symstr", strpsh.gh_offset, strsectlength)
        zeroed(cc) == [cc EXCEPT !.ep.f_symtab_sect_strings = NULL,
                                 !.ep.f_symtab_sect_strings_max = U(0),
                                 !.ep.f_symtab_sect_strings_sect_index = 0]
    IN  IF strsectindex = 0 THEN Ret(DW_DLV_NO_ENTRY, c)
        ELSE IF \/ Gt(strsectlength, e.f_filesize)
                \/ Gt(strpsh.gh_offset, e.f_filesize)
                \/ Gt(Add(strsectlength, strpsh.gh_offset), e.f_filesize)
        THEN Fail(ck, "DW_DLE_SECTION_SIZE_OR_OFFSET_LARGE")
        ELSE
        LET al == Alloc(ck)
        IN  IF ~al[1] THEN Fail(zeroed(al[2]), "DW_DLE_ALLOC_FAIL")
            ELSE
            LET c1 == [al[2] EXCEPT !.ep.f_symtab_sect_strings =
                          PtrTo([sec |-> strsectindex, len |-> strsectlength,
                                 size |-> Add(strsectlength, U(1))])]
                rd == RRMOA(c1, "symstr", strpsh.gh_offset, strsectlength)
            IN  IF rd.res # DW_DLV_OK THEN Ret(rd.res, zeroed(rd.c))
                ELSE Ret(DW_DLV_OK, rd.c)

\* Byte k (0-based, below buf.size) of the buffer after the load: what
\* RRMOA read, then what calloc left.
SymstrByte(buf, k) ==
    IF k < N(buf.len) THEN CharOfSection(buf.sec, k) ELSE NUL

\* Record i (0-based) of section sec as the file holds it; file.recs[sec + 1]
\* are the records of a symbol table or of a relocation section.
ZeroRec ==
    [ st_name |-> <<0>>, st_value |-> <<0>>, st_size |-> <<0>>, st_info |-> <<0>>,
      st_other |-> <<0>>, st_shndx |-> <<0>>,
      r_offset |-> <<0>>, r_info |-> <<0>>, r_addend |-> <<0>> ]

RawRec(sec, i) ==
    IF sec < Len(file.recs) /\ i < Len(file.recs[sec + 1])
    THEN file.recs[sec + 1][i + 1] ELSE ZeroRec

\* A symbol decoder that copies st_value in host order whatever f is.
generic_symentry_value_in_host_order(f, psym) ==
    LET info == ASNAR(f, psym.st_info)
    IN  [ gs_name |-> ASNAR(f, psym.st_name),
          gs_value |-> ASNAR("memcpy", psym.st_value),
          gs_size |-> ASNAR(f, psym.st_size),
          gs_info |-> info,
          gs_other |-> ASNAR(f, psym.st_other),
          gs_shndx |-> ASNAR(f, psym.st_shndx),
          gs_bind |-> U(N(info) \div 16),
          gs_type |-> U(N(info) % 16) ]

generic_symentry_of(f, psym) ==
    LET info == ASNAR(f, psym.st_info)
    IN  [ gs_name |-> ASNAR(f, psym.st_name),
          gs_value |-> ASNAR(f, psym.st_value),
          gs_size |-> ASNAR(f, psym.st_size),
          gs_info |-> info,
          gs_other |-> ASNAR(f, psym.st_other),
          gs_shndx |-> ASNAR(f, psym.st_shndx),
          gs_bind |-> U(N(info) \div 16),
          gs_type |-> U(N(info) % 16) ]

\* A loader that takes the whole records of a table and drops the rest.
load_symbols3264_dropping_the_rest(c, offsetsize, secnum, offset, size) ==
    LET ecount == Div(size, SizeofSym(offsetsize))
        size2 == Mul(ecount, SizeofSym(offsetsize))
        out(r) == [res |-> r.res, c |-> r.c, gsym |-> NULL, count |-> 0]
    IN  IF FALSE THEN out(Fail(c, "DW_DLE_SECTION_SIZE_ERROR"))
        ELSE
        LET a1 == Alloc(c)
        IN  IF ~a1[1] THEN out(Fail(a1[2], "DW_DLE_ALLOC_FAIL"))
            ELSE
            LET a2 == Alloc(a1[2])
            IN  IF ~a2[1] THEN out(Fail(a2[2], "DW_DLE_ALLOC_FAIL"))
                ELSE
                LET rd == RRMOA(a2[2], "symtab", offset, size)
                IN  IF rd.res # DW_DLV_OK
                    THEN IF offsetsize = 64
                         THEN out(Ret(rd.res, SetErr(rd.c, "DW_DLE_ALLOC_FAIL")))
                         ELSE out(rd)
                    ELSE [ res |-> DW_DLV_OK, c |-> rd.c,
                           gsym |-> PtrTo([i \in 1..N(ecount) |->
                               generic_symentry_of(c.ep.f_copy_word, RawRec(secnum, i - 1))]),
                           count |-> N(ecount) ]

\* dwarf_generic_elf_load_symbols32 (offsetsize 32) and ...64 (offsetsize
\* 64).  The result carries gsym_out and count_out.
dwarf_generic_elf_load_symbols3264(c, offsetsize, secnum, offset, size) ==
    LET ecount == Div(size, SizeofSym(offsetsize))
        size2 == Mul(ecount, SizeofSym(offsetsize))
        out(r) == [res |-> r.res, c |-> r.c, gsym |-> NULL, count |-> 0]
    IN  IF size # size2 THEN out(Fail(c, "DW_DLE_SECTION_SIZE_ERROR"))
        ELSE
        LET a1 == Alloc(c)
        IN  IF ~a1[1] THEN out(Fail(a1[2], "DW_DLE_ALLOC_FAIL"))
            ELSE
            LET a2 == Alloc(a1[2])
            IN  IF ~a2[1] THEN out(Fail(a2[2], "DW_DLE_ALLOC_FAIL"))
                ELSE
                LET rd == RRMOA(a2[2], "symtab", offset, size)
                IN  IF rd.res # DW_DLV_OK
                    THEN IF offsetsize = 64
                         THEN out(Ret(rd.res, SetErr(rd.c, "DW_DLE_ALLOC_FAIL")))
                         ELSE out(rd)
                    ELSE [ res |-> DW_DLV_OK, c |-> rd.c,
                           gsym |-> PtrTo([i \in 1..N(ecount) |->
                               generic_symentry_of(c.ep.f_copy_word, RawRec(secnum, i - 1))]),
                           count |-> N(ecount) ]

dwarf_generic_elf_load_symbols32(c, secnum, offset, size) ==
    dwarf_generic_elf_load_symbols3264(c, 32, secnum, offset, size)
dwarf_generic_elf_load_symbols64(c, secnum, offset, size) ==
    dwarf_generic_elf_load_symbols3264(c, 64, secnum, offset, size)

dwarf_generic_elf_load_symbols(c, secnum, psh) ==
    LET out(r) == [res |-> r.res, c |-> r.c, gsym |-> NULL, count |-> 0]
    IN  IF secnum = 0 THEN out(Ret(DW_DLV_NO_ENTRY, c))
        ELSE IF Gt(psh.gh_size, c.ep.f_filesize)
        THEN out(Fail(c, "DW_DLE_SECTION_SIZE_ERROR"))
        ELSE IF c.ep.f_offsetsize = 32
        THEN dwarf_generic_elf_load_symbols32(c, secnum, psh.gh_offset, psh.gh_size)
        ELSE IF c.ep.f_offsetsize = 64
        THEN dwarf_generic_elf_load_symbols64(c, secnum, psh.gh_offset, psh.gh_size)
        ELSE out(Fail(c, "DW_DLE_OFFSET_SIZE"))

_dwarf_load_elf_symtab_symbols(c) ==
    LET secnum == c.ep.f_symtab_sect_index
        psh == Sec(c.ep, secnum)
    IN  IF secnum = 0 THEN Ret(DW_DLV_NO_ENTRY, c)
        ELSE IF Gt(psh.gh_size, c.ep.f_filesize)
        THEN Fail(c, "DW_DLE_SECTION_SIZE_ERROR")
        ELSE LET r == dwarf_generic_elf_load_symbols(c, secnum, psh)
             IN  IF r.res = DW_DLV_OK
                 THEN Ret(r.res, [r.c EXCEPT !.ep.f_symtab = r.gsym,
                                             !.ep.f_loc_symtab_g_count = r.count])
                 ELSE Ret(r.res, r.c)


(***************************************************************************)
(* Relocations                                                             *)
(***************************************************************************)
EM_MIPS == 8
EM_SPARCV9 == 43

\* sizeof(dw_elf32_rela), sizeof(dw_elf32_rel), sizeof(dw_elf64_rela) and
\* sizeof(dw_elf64_rel).
RelocRecLen(localoffsize, localrela) ==
    IF localoffsize = "RelocOffset32"
    THEN IF localrela = "RelocIsRela" THEN 12 ELSE 8
    ELSE IF localrela = "RelocIsRela" THEN 24 ELSE 16

\* v >> 8 * n and v & (2^(8 * n) - 1) on Dwarf_Unsigned.
ShiftRightBytes(v, n) == LEval(SubSeq(LEbytes(v, 8), n + 1, 8))
LowBytes(v, n) == LEval(LEbytes(v, n))

\* SIGN_EXTEND(t, n): t holds an n-byte two's complement number.
SIGN_EXTEND(t, n) ==
    IF n < 8 /\ LEbytes(t, 8)[n] >= 128
    THEN LEval(LEbytes(t, n) \o [i \in 1..(8 - n) |-> 255])
    ELSE t

\* A decoder that copies r_addend and leaves its upper bytes zero.
generic_rela_addend_zero_extended(c, relp, localoffsize, localrela) ==
    LET f == c.ep.f_copy_word
        mips64le == c.ep.f_machine = U(EM_MIPS) /\ c.ep.f_endian = "DW_OBJECT_LSB"
        sparcv9 == c.ep.f_machine = U(EM_SPARCV9)
        info == ASNAR(f, relp.r_info)
        is64 == localoffsize = "RelocOffset64"
        bybytes == is64 /\ (mips64le \/ sparcv9)
    IN  [ gr_offset |-> ASNAR(f, relp.r_offset),
          gr_info |-> info,
          gr_addend |-> IF localrela = "RelocIsRela"
                        THEN ASNAR(f, relp.r_addend) ELSE U(0),
          gr_sym |-> IF bybytes THEN ASNAR(f, [i \in 1..4 |-> ByteAt(relp.r_info, i)])
                     ELSE LEval(SubSeq(LEbytes(info, 8), IF is64 THEN 5 ELSE 2, 8)),
          gr_type |-> IF bybytes THEN U(ByteAt(relp.r_info, 8))
                      ELSE LEval(LEbytes(info, IF is64 THEN 4 ELSE 1)),
          gr_type2 |-> IF is64 /\ mips64le
                       THEN U(ByteAt(relp.r_info, 7)) ELSE U(c.fault.heap),
          gr_type3 |-> IF is64 /\ mips64le
                       THEN U(ByteAt(relp.r_info, 6)) ELSE U(c.fault.heap),
          gr_is_rela |-> localrela = "RelocIsRela" ]

\* A decoder whose REL side splits every 64-bit r_info as r_info >> 32 and
\* r_info & 0xffffffff.
generic_rela_rel64_unsplit(c, relp, localoffsize, localrela) ==
    LET f == c.ep.f_copy_word
        mips64le == c.ep.f_machine = U(EM_MIPS) /\ c.ep.f_endian = "DW_OBJECT_LSB"
        sparcv9 == c.ep.f_machine = U(EM_SPARCV9)
        info == ASNAR(f, relp.r_info)
        is64 == localoffsize = "RelocOffset64"
        isrela == localrela = "RelocIsRela"
        bybytes == is64 /\ isrela /\ (mips64le \/ sparcv9)
        addend == ASNAR(f, relp.r_addend)
        n == Len(relp.r_addend)
    IN  [ gr_offset |-> ASNAR(f, relp.r_offset),
          gr_info |-> info,
          gr_addend |-> IF ~isrela THEN U(0)
                        ELSE IF n < 8 /\ LEbytes(addend, 8)[n] >= 128
                        THEN LEval(LEbytes(addend, n) \o [i \in 1..(8 - n) |-> 255])
                        ELSE addend,
          gr_sym |-> IF bybytes THEN ASNAR(f, [i \in 1..4 |-> ByteAt(relp.r_info, i)])
                     ELSE LEval(SubSeq(LEbytes(info, 8), IF is64 THEN 5 ELSE 2, 8)),
          gr_type |-> IF bybytes THEN U(ByteAt(relp.r_info, 8))
                      ELSE LEval(LEbytes(info, IF is64 THEN 4 ELSE 1)),
          gr_type2 |-> IF is64 /\ isrela /\ mips64le
                       THEN U(ByteAt(relp.r_info, 7)) ELSE U(c.fault.heap),
          gr_type3 |-> IF is64 /\ isrela /\ mips64le
                       THEN U(ByteAt(relp.r_info, 6)) ELSE U(c.fault.heap),
          gr_is_rela |-> isrela ]

\* One record of generic_rel_from_rela32, _rela64, _rel32 and _rel64; what
\* malloc left in a field the decoder does not set is the environment's.
generic_rela_of(c, relp, localoffsize, localrela) ==
    LET f == c.ep.f_copy_word
        objlittleendian == c.ep.f_endian = "DW_OBJECT_LSB"
        ismips64 == c.ep.f_machine = U(EM_MIPS)
        issparcv9 == c.ep.f_machine = U(EM_SPARCV9)
        info == ASNAR(f, relp.r_info)
        unset == U(c.fault.heap)
        is64 == localoffsize = "RelocOffset64"
        realsym == [i \in 1..4 |-> ByteAt(relp.r_info, i)]
    IN  [ gr_offset |-> ASNAR(f, relp.r_offset),
          gr_info |-> info,
          gr_addend |-> IF localrela = "RelocIsRela"
                        THEN SIGN_EXTEND(ASNAR(f, relp.r_addend), Len(relp.r_addend))
                        ELSE U(0),
          gr_sym |-> IF is64 /\ ((ismips64 /\ objlittleendian) \/ issparcv9)
                     THEN ASNAR(f, realsym)
                     ELSE IF is64 THEN ShiftRightBytes(info, 4)
                     ELSE ShiftRightBytes(info, 1),
          gr_type |-> IF is64 /\ ((ismips64 /\ objlittleendian) \/ issparcv9)
                      THEN U(ByteAt(relp.r_info, 8))
                      ELSE IF is64 THEN LowBytes(info, 4)
                      ELSE LowBytes(info, 1),
          gr_type2 |-> IF is64 /\ ismips64 /\ objlittleendian
                       THEN U(ByteAt(relp.r_info, 7)) ELSE unset,
          gr_type3 |-> IF is64 /\ ismips64 /\ objlittleendian
                       THEN U(ByteAt(relp.r_info, 6)) ELSE unset,
          gr_is_rela |-> localrela = "RelocIsRela" ]

\* generic_rel_from_rela32, generic_rel_from_rela64, generic_rel_from_rel32
\* and generic_rel_from_rel64.  The result carries the records of grel.
generic_rel_from(c, s, localoffsize, localrela) ==
    LET size == Sec(c.ep, s).gh_size
        reclen == RelocRecLen(localoffsize, localrela)
        ecount == Div(size, reclen)
        size2 == Mul(ecount, reclen)
    IN  IF size # size2
        THEN [res |-> DW_DLV_ERROR, c |-> SetErr(c, "DW_DLE_SECTION_SIZE_ERROR"),
              grel |-> <<>>]
        ELSE [res |-> DW_DLV_OK, c |-> c,
              grel |-> [i \in 1..N(ecount) |->
                  generic_rela_of(c, RawRec(s, i - 1), localoffsize, localrela)]]

\* A batch loader that stores the count before it has the records.
load_a_relx_batch_counting_first(c, s, localrela, localoffsize) ==
    LET gsh == Sec(c.ep, s)
        offset == gsh.gh_offset
        size == gsh.gh_size
        object_reclen == RelocRecLen(localoffsize, localrela)
        ck == Checked(c, "relx", offset, size)
        count == Div(size, object_reclen)
        size2 == Mul(count, object_reclen)
        out(r) == [res |-> r.res, c |-> r.c, grel |-> NULL, count |-> 0]
    IN  IF size = U(0) THEN out(Ret(DW_DLV_NO_ENTRY, c))
        ELSE IF \/ Gt(offset, c.ep.f_filesize)
                \/ Gt(size, c.ep.f_filesize)
                \/ Gt(Add(size, offset), c.ep.f_filesize)
        THEN out(Fail(ck, "DW_DLE_SECTION_SIZE_OR_OFFSET_LARGE"))
        ELSE IF size # size2 THEN out(Fail(ck, "DW_DLE_SECTION_SIZE_ERROR"))
        ELSE
        LET a1 == Alloc([ck EXCEPT !.ep.f_shdr[s + 1].gh_relcount = N(count)])
        IN  IF ~a1[1] THEN out(Fail(a1[2], "DW_DLE_ALLOC_FAIL"))
            ELSE
            LET a2 == Alloc(a1[2])
            IN  IF ~a2[1] THEN out(Fail(a2[2], "DW_DLE_ALLOC_FAIL"))
                ELSE
                LET rd == RRMOA(a2[2], "relx", offset, size)
                IN  IF rd.res # DW_DLV_OK THEN out(rd)
                    ELSE
                    LET g == generic_rel_from(rd.c, s, localoffsize, localrela)
                    IN  IF g.res = DW_DLV_OK
                        THEN [ res |-> g.res,
                               c |-> [g.c EXCEPT
                                        !.ep.f_shdr[s + 1].gh_relcount = N(count),
                                        !.ep.f_shdr[s + 1].gh_rels = PtrTo(g.grel)],
                               grel |-> PtrTo(g.grel), count |-> N(count) ]
                        ELSE out(g)

\* The result carries grel_out and count_out.
_dwarf_elf_load_a_relx_batch(c, s, localrela, localoffsize) ==
    LET gsh == Sec(c.ep, s)
        offset == gsh.gh_offset
        size == gsh.gh_size
        object_reclen == RelocRecLen(localoffsize, localrela)
        ck == Checked(c, "relx", offset, size)
        count == Div(size, object_reclen)
        size2 == Mul(count, object_reclen)
        out(r) == [res |-> r.res, c |-> r.c, grel |-> NULL, count |-> 0]
    IN  IF size = U(0) THEN out(Ret(DW_DLV_NO_ENTRY, c))
        ELSE IF \/ Gt(offset, c.ep.f_filesize)
                \/ Gt(size, c.ep.f_filesize)
                \/ Gt(Add(size, offset), c.ep.f_filesize)
        THEN out(Fail(ck, "DW_DLE_SECTION_SIZE_OR_OFFSET_LARGE"))
        ELSE IF size # size2 THEN out(Fail(ck, "DW_DLE_SECTION_SIZE_ERROR"))
        ELSE
        LET a1 == Alloc(ck)
        IN  IF ~a1[1] THEN out(Fail(a1[2], "DW_DLE_ALLOC_FAIL"))
            ELSE
            LET a2 == Alloc(a1[2])
            IN  IF ~a2[1] THEN out(Fail(a2[2], "DW_DLE_ALLOC_FAIL"))
                ELSE
                LET rd == RRMOA(a2[2], "relx", offset, size)
                IN  IF rd.res # DW_DLV_OK THEN out(rd)
                    ELSE
                    LET g == generic_rel_from(rd.c, s, localoffsize, localrela)
                    IN  IF g.res = DW_DLV_OK
                        THEN [ res |-> g.res,
                               c |-> [g.c EXCEPT
                                        !.ep.f_shdr[s + 1].gh_relcount = N(count),
                                        !.ep.f_shdr[s + 1].gh_rels = PtrTo(g.grel)],
                               grel |-> PtrTo(g.grel), count |-> N(count) ]
                        ELSE out(g)

\* A test that takes every relocation section with a target in the table.
this_rel_is_a_section_with_target(c, gshdr) ==
    LET oksecnum == gshdr.gh_reloc_target_secnum
    IN  IF gshdr.gh_type # U(SHT_RELA) /\ gshdr.gh_type # U(SHT_REL)
        THEN [res |-> DW_DLV_OK, c |-> c, oksecnum |-> 0]
        ELSE IF Ge(oksecnum, U(c.ep.f_loc_shdr_g_count))
        THEN [res |-> DW_DLV_ERROR, c |-> SetErr(c, "DW_DLE_ELF_SECTION_ERROR"),
              oksecnum |-> 0]
        ELSE [res |-> DW_DLV_OK, c |-> c, oksecnum |-> N(oksecnum)]

\* The result carries oksecnum_out.
this_rel_is_a_section_dwarf_related(c, gshdr) ==
    LET oksecnum == gshdr.gh_reloc_target_secnum
    IN  IF gshdr.gh_type # U(SHT_RELA) /\ gshdr.gh_type # U(SHT_REL)
        THEN [res |-> DW_DLV_OK, c |-> c, oksecnum |-> 0]
        ELSE IF Ge(oksecnum, U(c.ep.f_loc_shdr_g_count))
        THEN [res |-> DW_DLV_ERROR, c |-> SetErr(c, "DW_DLE_ELF_SECTION_ERROR"),
              oksecnum |-> 0]
        ELSE IF ~Sec(c.ep, N(oksecnum)).gh_is_dwarf
        THEN [res |-> DW_DLV_OK, c |-> c, oksecnum |-> 0]
        ELSE [res |-> DW_DLV_OK, c |-> c, oksecnum |-> N(oksecnum)]

\* A load that does not set the empty sections apart.
load_elf_relx_of_empty_section(c, epnull, secnum, localr) ==
    IF epnull THEN Fail(c, "DW_DLE_INTERNAL_NULL_POINTER")
    ELSE IF Ge(secnum, U(c.ep.f_loc_shdr_g_count))
    THEN Fail(c, "DW_DLE_ELF_SECTION_ERROR")
    ELSE
    LET gshdr == Sec(c.ep, N(secnum))
        rel == this_rel_is_a_section_dwarf_related(c, gshdr)
    IN  IF FALSE THEN Ret(DW_DLV_NO_ENTRY, c)
        ELSE IF rel.res = DW_DLV_ERROR THEN Ret(rel.res, rel.c)
        ELSE IF rel.oksecnum = 0 THEN Ret(DW_DLV_OK, c)
        ELSE IF c.ep.f_offsetsize # 64 /\ c.ep.f_offsetsize # 32
        THEN Fail(c, "DW_DLE_OFFSET_SIZE")
        ELSE
        LET localoffsize == IF c.ep.f_offsetsize = 64
                            THEN "RelocOffset64" ELSE "RelocOffset32"
            b == _dwarf_elf_load_a_relx_batch(c, N(secnum), localr, localoffsize)
        IN  IF b.res = DW_DLV_ERROR THEN Ret(b.res, b.c)
            ELSE IF b.res = DW_DLV_NO_ENTRY THEN Ret(b.res, b.c)
            ELSE Ret(DW_DLV_OK,
                     [b.c EXCEPT !.ep.f_shdr[N(secnum) + 1].gh_rels = b.grel,
                                 !.ep.f_shdr[N(secnum) + 1].gh_relcount = b.count])

\* epnull: the caller passed a null ep.
_dwarf_load_elf_relx(c, epnull, secnum, localr) ==
    IF epnull THEN Fail(c, "DW_DLE_INTERNAL_NULL_POINTER")
    ELSE IF Ge(secnum, U(c.ep.f_loc_shdr_g_count))
    THEN Fail(c, "DW_DLE_ELF_SECTION_ERROR")
    ELSE
    LET gshdr == Sec(c.ep, N(secnum))
        rel == this_rel_is_a_section_dwarf_related(c, gshdr)
    IN  IF is_empty_section(gshdr.gh_type) THEN Ret(DW_DLV_NO_ENTRY, c)
        ELSE IF rel.res = DW_DLV_ERROR THEN Ret(rel.res, rel.c)
        ELSE IF rel.oksecnum = 0 THEN Ret(DW_DLV_OK, c)
        ELSE IF c.ep.f_offsetsize # 64 /\ c.ep.f_offsetsize # 32
        THEN Fail(c, "DW_DLE_OFFSET_SIZE")
        ELSE
        LET localoffsize == IF c.ep.f_offsetsize = 64
                            THEN "RelocOffset64" ELSE "RelocOffset32"
            b == _dwarf_elf_load_a_relx_batch(c, N(secnum), localr, localoffsize)
        IN  IF b.res = DW_DLV_ERROR THEN Ret(b.res, b.c)
            ELSE IF b.res = DW_DLV_NO_ENTRY THEN Ret(b.res, b.c)
            ELSE Ret(DW_DLV_OK,
                     [b.c EXCEPT !.ep.f_shdr[N(secnum) + 1].gh_rels = b.grel,
                                 !.ep.f_shdr[N(secnum) + 1].gh_relcount = b.count])


(***************************************************************************)
(* The object files the loader is run on.  A file is described by the      *)
(* values its header fields hold and encoded into bytes by its class       *)
(* (32 or 64 bit) and byte order.                                          *)
(***************************************************************************)
\* The bytes of the n-byte field holding v in a file of byte order endian.
Enc(v, n, endian) ==
    IF endian = "little" THEN LEbytes(v, n) ELSE Reverse(LEbytes(v, n))

\* The section-name string table of the files.
ShStrTab ==
    <<NUL>> \o Name_rela_debug_info \o <<NUL>> \o Name_rel_debug_info \o <<NUL>>
    \o Name_debug_info_dwo \o <<NUL>>
    \o Name_rela_text \o <<NUL>> \o Name_group \o <<NUL>> \o Name_symtab \o <<NUL>>
    \o Name_strtab \o <<NUL>> \o Name_shstrtab \o <<NUL>>

\* The first offset of ShStrTab at which name starts.
NameOffset(name) ==
    CHOOSE k \in 0..(Len(ShStrTab) - 1) :
        /\ CStr(ShStrTab, k) = name
        /\ \A j \in 0..(k - 1) : CStr(ShStrTab, j) # name

\* The kinds of section a file is assembled from.
SectionKinds ==
    { "debug", "dwo", "text", "reladebug", "relatext", "group_next", "groupdbg",
      "nobits" }

KindName(kind) ==
    CASE kind = "debug" -> Name_debug_info
      [] kind = "dwo" -> Name_debug_info_dwo
      [] kind = "text" -> Name_text
      [] kind = "reladebug" -> Name_rela_debug_info
      [] kind = "reldebug" -> Name_rel_debug_info
      [] kind = "relatext" -> Name_rela_text
      [] kind \in {"group_next", "group_prev"} -> Name_group
      [] kind = "groupdbg" -> Name_debug_info
      [] kind = "nobits" -> Name_debug_info
      [] kind = "symtab" -> Name_symtab
      [] kind = "strtab" -> Name_strtab
      [] kind = "shstrtab" -> Name_shstrtab
      [] OTHER -> <<>>

KindType(kind) ==
    CASE kind \in {"debug", "dwo", "text"} -> SHT_PROGBITS
      [] kind \in {"reladebug", "relatext"} -> SHT_RELA
      [] kind = "reldebug" -> SHT_REL
      [] kind \in {"group_next", "group_prev", "groupdbg"} -> SHT_GROUP
      [] kind = "nobits" -> SHT_NOBITS
      [] kind = "symtab" -> SHT_SYMTAB
      [] kind \in {"strtab", "shstrtab"} -> SHT_STRTAB
      [] OTHER -> SHT_NULL

\* The member lists of the group sections: section numbers after the flag.
KindMembers(kind, i) ==
    CASE kind = "group_next" -> <<i + 1>>
      [] kind = "group_prev" -> <<i - 1>>
      [] kind = "groupdbg" -> <<i + 1>>
      [] OTHER -> <<>>

SymStrTab == <<NUL, "a", NUL>>

\* The size in bytes of the contents of a section of the kind.
KindSize(kind, offsetsize) ==
    CASE kind \in {"debug", "dwo", "text", "nobits"} -> 8
      [] kind \in {"reladebug", "relatext"} ->
             RelocRecLen(IF offsetsize = 64 THEN "RelocOffset64" ELSE "RelocOffset32",
                         "RelocIsRela")
      [] kind = "reldebug" ->
             RelocRecLen(IF offsetsize = 64 THEN "RelocOffset64" ELSE "RelocOffset32",
                         "RelocIsRel")
      [] kind \in {"group_next", "group_prev", "groupdbg"} -> 2 * DWARF_32BIT_SIZE
      [] kind = "symtab" -> SizeofSym(offsetsize)
      [] kind = "strtab" -> Len(SymStrTab)
      [] kind = "shstrtab" -> Len(ShStrTab)
      [] OTHER -> 0

\* The kinds of the sections of a file: the null section, the given kinds
\* and the section-name string table.
AllKinds(kinds) == <<"null">> \o kinds \o <<"shstrtab">>

RECURSIVE SumSizes(_, _, _)
SumSizes(all, offsetsize, n) ==
    IF n = 0 THEN 0
    ELSE KindSize(all[n], offsetsize) + SumSizes(all, offsetsize, n - 1)

\* The description of the file with the given section kinds: header
\* values, section-header values (section i at shdr[i + 1]) and contents.
Described(offsetsize, kinds) ==
    LET all == AllKinds(kinds)
        n == Len(all)
        start(i) == SizeofEhdr(offsetsize) + SumSizes(all, offsetsize, i)
        shoff == start(n)
    IN  [ filesize |-> U(shoff + n * SizeofShdr(offsetsize)),
          ehdr |-> [ e_machine |-> U(62), e_shoff |-> U(shoff),
                     e_shentsize |-> U(SizeofShdr(offsetsize)),
                     e_shnum |-> U(n), e_shstrndx |-> U(n - 1) ],
          shdr |-> [ k \in 1..n |->
              LET kind == all[k]
                  i == k - 1
              IN  [ sh_name |-> U(NameOffset(KindName(kind))),
                    sh_type |-> U(KindType(kind)),
                    sh_flags |-> IF kind = "text" THEN U(SHF_GROUP) ELSE U(0),
                    sh_offset |-> IF kind = "null" THEN U(0) ELSE U(start(i)),
                    sh_size |-> U(KindSize(kind, offsetsize)),
                    sh_link |-> IF kind = "symtab" THEN U(i + 1) ELSE U(0),
                    sh_info |-> IF kind \in {"reladebug", "reldebug", "relatext"}
                                THEN U(i - 1) ELSE U(0),
                    sh_entsize |->
                        IF kind \in {"group_next", "group_prev", "groupdbg"}
                        THEN U(DWARF_32BIT_SIZE)
                        ELSE IF kind \in {"reladebug", "reldebug", "relatext", "symtab"}
                        THEN U(KindSize(kind, offsetsize))
                        ELSE U(0) ] ],
          chars |-> [ k \in 1..n |->
              IF all[k] = "shstrtab" THEN ShStrTab
              ELSE IF all[k] = "strtab" THEN SymStrTab ELSE <<>> ],
          members |-> [ k \in 1..n |-> KindMembers(all[k], k - 1) ],
          kinds |-> all ]


\* The records of a relocation section and of a symbol table.
RelaRec(w, endian) ==
    [ZeroRec EXCEPT !.r_offset = Enc(U(4), w, endian),
                    !.r_info = Enc(<<1, 2, 3, 0>>, w, endian),
                    !.r_addend = [i \in 1..w |-> 255]]

SymRec(w, endian) ==
    [ZeroRec EXCEPT !.st_name = Enc(U(1), 4, endian),
                    !.st_value = Enc(U(16), w, endian),
                    !.st_size = Enc(U(8), w, endian),
                    !.st_info = <<18>>,
                    !.st_other = <<0>>,
                    !.st_shndx = Enc(U(1), 2, endian)]

\* The words of a group section: the GRP_COMDAT flag, then the members.
GroupWords(members, endian) ==
    <<Enc(U(1), DWARF_32BIT_SIZE, endian)>>
    \o [j \in 1..Len(members) |-> Enc(U(members[j]), DWARF_32BIT_SIZE, endian)]

\* The file a description stands for: its fields as bytes.
Encode(D, offsetsize, endian) ==
    LET w == IF offsetsize = 64 THEN 8 ELSE 4
        n == Len(D.shdr)
    IN  [ filesize |-> D.filesize,
          ehdr |-> [ e_machine |-> Enc(D.ehdr.e_machine, 2, endian),
                     e_shoff |-> Enc(D.ehdr.e_shoff, w, endian),
                     e_shentsize |-> Enc(D.ehdr.e_shentsize, 2, endian),
                     e_shnum |-> Enc(D.ehdr.e_shnum, 2, endian),
                     e_shstrndx |-> Enc(D.ehdr.e_shstrndx, 2, endian) ],
          shdr |-> [ k \in 1..n |->
                     [ sh_name |-> Enc(D.shdr[k].sh_name, 4, endian),
                       sh_type |-> Enc(D.shdr[k].sh_type, 4, endian),
                       sh_flags |-> Enc(D.shdr[k].sh_flags, w, endian),
                       sh_offset |-> Enc(D.shdr[k].sh_offset, w, endian),
                       sh_size |-> Enc(D.shdr[k].sh_size, w, endian),
                       sh_link |-> Enc(D.shdr[k].sh_link, 4, endian),
                       sh_info |-> Enc(D.shdr[k].sh_info, 4, endian),
                       sh_entsize |-> Enc(D.shdr[k].sh_entsize, w, endian) ] ],
          chars |-> D.chars,
          words |-> [ k \in 1..n |->
                      IF D.kinds[k] \in {"group_next", "group_prev", "groupdbg"}
                      THEN GroupWords(D.members[k], endian) ELSE <<>> ],
          recs |-> [ k \in 1..n |->
                     IF D.kinds[k] \in {"reladebug", "reldebug", "relatext"}
                     THEN <<RelaRec(w, endian)>>
                     ELSE IF D.kinds[k] = "symtab" THEN <<SymRec(w, endian)>>
                     ELSE <<>> ],
          offsetsize |-> offsetsize,
          endian |-> endian ]

\* The access object as the opening of the object leaves it: zeroed but
\* for what object detection found, the byte-order selector and the first
\* COMDAT group number.
OpenedAccess(f, hostendian) ==
    [ f_offsetsize |-> f.offsetsize,
      f_filesize |-> f.filesize,
      f_endian |-> IF f.endian = "little" THEN "DW_OBJECT_LSB" ELSE "DW_OBJECT_MSB",
      f_copy_word |-> IF f.endian = hostendian THEN "memcpy"
                      ELSE "_dwarf_memcpy_swap_bytes",
      f_machine |-> U(0),
      f_ehdr |-> NULL,
      f_loc_ehdr_g_count |-> 0,
      f_shdr |-> <<>>,
      f_loc_shdr_g_count |-> 0,
      f_elf_shstrings_data |-> NULL,
      f_elf_shstrings_length |-> U(0),
      f_elf_shstrings_max |-> U(0),
      f_dynsym_sect_index |-> 0,
      f_loc_dynsym_g_offset |-> U(0),
      f_dynsym_sect_strings_sect_index |-> 0,
      f_dynsym_sect_strings_max |-> U(0),
      f_symtab_sect_index |-> 0,
      f_loc_symtab_g_offset |-> U(0),
      f_loc_symtab_g_count |-> 0,
      f_symtab_sect_strings_sect_index |-> 0,
      f_symtab_sect_strings_max |-> U(0),
      f_symtab_sect_strings |-> NULL,
      f_symtab |-> NULL,
      f_dynamic_sect_index |-> 0,
      f_loc_dynamic_g_offset |-> U(0),
      f_sg_next_group_number |-> FirstComdatGroupNumber,
      f_sht_group_type_section_count |-> 0,
      f_shf_group_flag_section_count |-> 0,
      f_dwo_group_section_count |-> 0 ]

\* The files built from every choice of NumSections section kinds.
TableFiles ==
    { Encode(Described(64, kinds), 64, "little") :
          kinds \in [1..NumSections -> SectionKinds] }

\* A description with one header value or one section-header value changed.
WithEhdr(D, field, v) == [D EXCEPT !.ehdr[field] = v]
WithShdr(D, sec, field, v) == [D EXCEPT !.shdr[sec + 1][field] = v]

\* Files of either class and byte order, and files whose offset size object
\* detection reports as neither 32 nor 64.
FormatKinds ==
    { <<"group_next", "debug", "reladebug">>, <<"symtab", "strtab", "debug">>,
      <<"strtab", "symtab", "dwo">>, <<"symtab", "debug", "relatext">> }

FormatFiles ==
    { Encode(Described(os, kinds), os, endian) :
          os \in {32, 64}, endian \in {"little", "big"}, kinds \in FormatKinds }
    \cup { [Encode(Described(32, kinds), 32, endian) EXCEPT !.offsetsize = os] :
          os \in {0, 16}, endian \in {"little", "big"}, kinds \in FormatKinds }

\* Files with one offset, size or count at or past the limits: section 1 is
\* .debug_info, 2 its relocations, 3 the symbol table, 4 its strings and 5
\* the section names.
RangeKinds == <<"debug", "reladebug", "symtab", "strtab">>
Max64 == <<Base - 1, Base - 1, Base - 1, Base - 1>>

RangeValues(filesize) ==
    { U(0), U(1), Add(filesize, Max64), filesize, Add(filesize, U(1)),
      <<Base - 1, Base - 1, 0, 0>>, <<0, 0, 1, 0>>, <<0, 0, 0, Base \div 2>>, Max64,
      <<Base - 2, Base - 1, Base - 1, Base - 1>> }

RangeFiles ==
    LET D(os) == Described(os, RangeKinds)
    IN  { Encode(WithEhdr(D(os), field, v), os, "little") :
              os \in {32, 64}, v \in RangeValues(D(64).filesize),
              field \in {"e_shoff", "e_shentsize", "e_shnum", "e_shstrndx"} }
        \cup { Encode(WithShdr(D(os), sec, field, v), os, "little") :
              os \in {32, 64}, v \in RangeValues(D(64).filesize),
              sec \in 2..5, field \in {"sh_offset", "sh_size"} }

\* Files with one sh_name at or past the end of the section-name table, and
\* files whose table is cut short so that its last name has no NUL.
NameFiles ==
    LET D == Described(64, <<"group_next", "debug", "reladebug">>)
        len == Len(ShStrTab)
    IN  { Encode(WithShdr(D, sec, "sh_name", v), 64, "little") :
              sec \in 1..4,
              v \in {U(len - 1), U(len), U(len + 1), <<Base - 1, Base - 1, 0, 0>>, U(3)} }
        \cup { Encode(WithShdr(D, 4, "sh_size", U(len - cut)), 64, "little") :
              cut \in {1, 2, Len(Name_shstrtab) + 1, len} }

\* Files whose section 1 is a SHT_GROUP with the given words; the table
\* has 5 sections.
GroupFlagWords == { <<1, 0, 0, 0>>, <<0, 0, 0, 1>>, <<2, 0, 0, 0>> }
GroupMemberWords ==
    { <<0, 0, 0, 0>>, <<1, 0, 0, 0>>, <<2, 0, 0, 0>>, <<0, 0, 0, 2>>, <<3, 0, 0, 0>>,
      <<4, 0, 0, 0>>, <<5, 0, 0, 0>>, <<0, 0, 0, 5>>, <<6, 0, 0, 0>>, <<6, 0, 0, 6>> }

GroupPayloads ==
    { <<fl>> : fl \in GroupFlagWords }
    \cup { <<fl, m>> : fl \in GroupFlagWords, m \in GroupMemberWords }
    \cup { <<fl, m1, m2>> : fl \in GroupFlagWords, m1 \in GroupMemberWords,
                            m2 \in GroupMemberWords }

GroupFiles ==
    LET D == Described(64, <<"group_next", "debug", "debug">>)
        F(words, size, entsize) ==
            [Encode(WithShdr(WithShdr(D, 1, "sh_size", U(size)), 1, "sh_entsize",
                             U(entsize)), 64, "little")
                EXCEPT !.words[2] = words]
    IN  { F(words, DWARF_32BIT_SIZE * Len(words), DWARF_32BIT_SIZE) :
              words \in GroupPayloads }
        \cup { F(<<<<1, 0, 0, 0>>, <<2, 0, 0, 0>>>>, size, entsize) :
              size \in {0, 3, 6, 8, 24}, entsize \in {0, DWARF_32BIT_SIZE, 8} }

\* Files whose section 2 holds one relocation record of .debug_info, with
\* or without addends, for each machine whose r_info the decoders lay out
\* differently; r_info and r_addend are given as the bytes of the file.
RelocMachines == {62, EM_MIPS, EM_SPARCV9}
RelocInfoBytes == { <<1, 2, 3, 4, 5, 6, 7, 8>>, <<129, 0, 0, 128, 200, 201, 202, 203>> }
RelocAddendBytes ==
    { <<255, 255, 255, 255, 255, 255, 255, 255>>, <<0, 0, 0, 128, 0, 0, 0, 128>>,
      <<5, 0, 0, 0, 0, 0, 0, 0>> }

RelocFiles ==
    LET F(os, endian, relkind, machine, info, addend) ==
            LET w == IF os = 64 THEN 8 ELSE 4
                D == WithEhdr(Described(os, <<"debug", relkind, "symtab", "strtab">>),
                              "e_machine", U(machine))
            IN  [Encode(D, os, endian) EXCEPT
                    !.recs[3] = <<[RelaRec(w, endian) EXCEPT
                                     !.r_info = SubSeq(info, 1, w),
                                     !.r_addend = SubSeq(addend, 1, w)]>>]
    IN  { F(os, endian, relkind, machine, info, addend) :
              os \in {32, 64}, endian \in {"little", "big"},
              relkind \in {"reladebug", "reldebug"}, machine \in RelocMachines,
              info \in RelocInfoBytes, addend \in RelocAddendBytes }

\* Files whose section 1 is a SHT_GROUP listing section 2, where section 2
\* is named .debug_info.dwo and is empty (SHT_NOBITS) or is itself a
\* SHT_GROUP without members, or where section 3 is a SHT_GROUP that lists
\* section 2 as well.
OverlapFiles ==
    LET D == Described(64, <<"group_next", "dwo", "debug">>)
        asgroup == WithShdr(WithShdr(WithShdr(D, 2, "sh_type", U(SHT_GROUP)),
                                     2, "sh_size", U(DWARF_32BIT_SIZE)),
                            2, "sh_entsize", U(DWARF_32BIT_SIZE))
    IN  { Encode(WithShdr(D, 2, "sh_type", U(SHT_NOBITS)), 64, "little"),
          [Encode(asgroup, 64, "little") EXCEPT !.words[3] = GroupWords(<<>>, "little")],
          Encode(Described(64, <<"group_next", "debug", "group_prev">>), 64, "little") }

\* Files whose symbol strings (section 2) hold no NUL, or nothing.
StringFiles ==
    LET D == Described(64, <<"symtab", "strtab", "debug">>)
    IN  { [Encode(WithShdr(D, 2, "sh_size", U(Len(str))), 64, "little")
              EXCEPT !.chars[3] = str] : str \in {<<"a", "b">>, <<"a">>, <<>>} }

\* Files whose sections carry sh_flags with SHF_GROUP and another bit, with
\* another bit alone, and SHF_GROUP on an empty section and on a group
\* section.
FlagFiles ==
    LET D == Described(64, <<"text", "debug", "nobits">>)
        G == Described(64, <<"group_next", "text", "debug">>)
    IN  { Encode(WithShdr(WithShdr(D, 3, "sh_flags", U(SHF_GROUP)), 1, "sh_flags", v),
                 64, "little") : v \in {U(SHF_GROUP + 2), U(2)} }
        \cup { Encode(WithShdr(G, 1, "sh_flags", U(SHF_GROUP)), 64, "little") }

\* Files whose relocation section (section 2) names as its target
\* (sh_info) the null section, the section count or a larger number.
TargetFiles ==
    LET D(os) == Described(os, <<"debug", "reladebug">>)
    IN  { Encode(WithShdr(D(os), 2, "sh_info", v), os, "little") :
              os \in {32, 64},
              v \in { U(0), D(64).ehdr.e_shnum, <<Base - 1, Base - 1, 0, 0>> } }

\* Files whose relocation section (section 2) or symbol table (section 3)
\* holds one record or two, whole or one byte short, and files whose
\* relocations of .text are one byte short.
RecordFiles ==
    LET F(os, kinds, sec, records, short) ==
            LET D == Described(os, kinds)
                size == records * N(D.shdr[sec + 1].sh_size) - short
                E == Encode(WithShdr(D, sec, "sh_size", U(size)), os, "little")
            IN  [E EXCEPT !.recs[sec + 1] = [i \in 1..records |-> @[1]]]
    IN  { F(os, <<"debug", "reladebug", "symtab", "strtab">>, sec, records, short) :
              os \in {32, 64}, sec \in {2, 3}, records \in {1, 2}, short \in {0, 1} }
        \cup { F(os, <<"text", "relatext">>, 2, 1, 1) : os \in {32, 64} }

\* The runs: a file and the byte order of the host.
Runs ==
    (TableFiles \X {"little"})
    \cup ((FormatFiles \cup GroupFiles \cup RelocFiles) \X {"little", "big"})
    \cup ((RangeFiles \cup NameFiles \cup OverlapFiles \cup StringFiles
           \cup FlagFiles \cup TargetFiles \cup RecordFiles) \X {"little"})

(***************************************************************************)
(* The loader's caller.  It opens an object, then calls the entry points   *)
(* in the order header, section headers, symbol strings, symbols and then  *)
(* relocations of sections of its choice; each call meets the              *)
(* environment's choice of a failing read or allocation.                   *)
(***************************************************************************)
FaultChoices ==
    {[rd |-> 0, al |-> 0, heap |-> h] : h \in {0, 1}}
    \cup {[rd |-> k, al |-> 0, heap |-> 0] : k \in 1..MaxReadFault}
    \cup {[rd |-> 0, al |-> k, heap |-> 0] : k \in 1..MaxAllocFault}

\* The choices that differ for a call making at most r reads and a
\* allocations.
FaultsUpTo(r, a) == {f \in FaultChoices : f.rd <= r /\ f.al <= a}

\* What the caller has after a call: its status, what the call wrote
\* through errcode and what it did to the file and the heap.
Outcome(op, arg, r) ==
    [ op |-> op, arg |-> arg, res |-> r.res, errs |-> r.c.errs, reads |-> r.c.reads,
      ranges |-> r.c.ranges, wild |-> r.c.wild, steps |-> r.c.steps,
      rets |-> r.c.rets, gs_call |-> r.c.gs_call ]

\* The caller gives up the object at the first DW_DLV_ERROR.
Returned(op, arg, r, stage) ==
    /\ ep' = r.c.ep
    /\ last' = Outcome(op, arg, r)
    /\ errcode' = IF r.c.errs = <<>> THEN errcode ELSE r.c.errs[Len(r.c.errs)]
    /\ pc' = IF r.res = DW_DLV_ERROR THEN "failed" ELSE stage
    /\ UNCHANGED <<file, host, sessions, errors>>

Init ==
    /\ \E run \in Runs : file = run[1] /\ host = run[2]
    /\ ep = OpenedAccess(file, host)
    /\ pc = "opened"
    /\ last = [ op |-> "open", arg |-> <<>>, res |-> DW_DLV_OK, errs |-> <<>>,
                reads |-> <<>>, ranges |-> <<>>, wild |-> <<>>, steps |-> <<>>,
                rets |-> <<>>, gs_call |-> <<>> ]
    /\ errcode = "DW_DLE_NE"
    /\ sessions = <<>> /\ errors = <<>>

LoadElfHeader ==
    /\ pc = "opened"
    /\ \E flt \in FaultsUpTo(1, 1) :
           Returned("_dwarf_load_elf_header", <<>>,
                    _dwarf_load_elf_header(NewCall(ep, flt)), "header")

\* ep->f_ehdr is dereferenced unless the offset size is refused first.
LoadElfSectheaders ==
    /\ pc \in {"opened", "header"}
    /\ ~IsNull(ep.f_ehdr) \/ ep.f_offsetsize \notin {32, 64}
    /\ \E flt \in FaultChoices :
           Returned("_dwarf_load_elf_sectheaders", <<>>,
                    _dwarf_load_elf_sectheaders(NewCall(ep, flt)), "sectheaders")

LoadElfSymstr ==
    /\ pc = "sectheaders"
    /\ \E flt \in FaultsUpTo(1, 1) :
           Returned("_dwarf_load_elf_symstr", <<>>,
                    _dwarf_load_elf_symstr(NewCall(ep, flt)), "symstr")

LoadElfSymtabSymbols ==
    /\ pc = "symstr"
    /\ \E flt \in FaultsUpTo(1, 2) :
           Returned("_dwarf_load_elf_symtab_symbols", <<>>,
                    _dwarf_load_elf_symtab_symbols(NewCall(ep, flt)), "symtab")

\* The calls of _dwarf_load_elf_relx: with a null ep, or with ep, a section
\* number up to the section count and either record kind.
RelxArgs ==
    {<<TRUE, 0, "RelocIsRela">>}
    \cup {<<FALSE, secnum, localr>> :
              secnum \in 0..ep.f_loc_shdr_g_count,
              localr \in {"RelocIsRela", "RelocIsRel"}}

LoadElfRelx ==
    /\ pc = "symtab"
    /\ \E flt \in FaultsUpTo(1, 2), arg \in RelxArgs :
           Returned("_dwarf_load_elf_relx", arg,
                    _dwarf_load_elf_relx(NewCall(ep, flt), arg[1], U(arg[2]), arg[3]),
                    "relx")

Next ==
    \/ LoadElfHeader
    \/ LoadElfSectheaders
    \/ LoadElfSymstr
    \/ LoadElfSymtabSymbols
    \/ LoadElfRelx

Spec == Init /\ [][Next]_vars

(***************************************************************************)
(* The loaded section table, as the claims about it read it.               *)
(***************************************************************************)
SectheadersOK ==
    last.op = "_dwarf_load_elf_sectheaders" /\ last.res = DW_DLV_OK

SectionNumbers == 0..(ep.f_loc_shdr_g_count - 1)
NameOf(i) == NameString(ep, Sec(ep, i))
NonEmpty(i) == ~is_empty_section(Sec(ep, i).gh_type)
IsGroupSection(i) == elf_sht_groupsec(Sec(ep, i).gh_type, NameOf(i))
GroupNumber(i) == Sec(ep, i).gh_section_group_number

\* A DWARF name: .debug_*, .zdebug_*, .eh_frame, .gdb_index*, .rel.*,
\* .rela.* or a name ending in .dwo.
HasDwarfName(name) ==
    \/ StartsWith(name, Name_debug_)
    \/ StartsWith(name, Name_zdebug_)
    \/ name = Name_eh_frame
    \/ StartsWith(name, Name_gdb_index)
    \/ StartsWith(name, Name_rel_dot)
    \/ StartsWith(name, Name_rela_dot)
    \/ string_endswith(name, Name_dwo)

\* The section numbers a loaded group section lists after its flag word.
GroupMembers(s) ==
    LET p == Sec(ep, s).gh_sht_group_array
    IN  IF IsNull(p) THEN {} ELSE {Deref(p)[k] : k \in 2..Len(Deref(p))}

\* The group sections that list at least one member.
GroupsWithMembers == {s \in SectionNumbers : GroupMembers(s) # {}}

\* The number of the group of group section s: the groups are numbered
\* from FirstComdatGroupNumber in the order of the section table.
GroupNumberOf(s) ==
    FirstComdatGroupNumber + Cardinality({t \in GroupsWithMembers : t < s})

ListingGroups(i) == {s \in GroupsWithMembers : i \in GroupMembers(s)}

\* The one group number a section with a DWARF name is to carry.
ExpectedGroup(i) ==
    IF string_endswith(NameOf(i), Name_dwo) THEN DW_GROUPNUMBER_DWO
    ELSE IF ListingGroups(i) # {}
    THEN GroupNumberOf(CHOOSE s \in ListingGroups(i) : TRUE)
    ELSE DW_GROUPNUMBER_BASE

\* C1 (as stated): after _dwarf_load_elf_sectheaders returns OK every
\* non-empty section with a DWARF name is marked gh_is_dwarf and carries
\* its one group number: 2 if the name ends in .dwo, the number of the
\* SHT_GROUP listing it if there is one, and 1 otherwise.
C1_EveryDwarfNamedSectionGrouped ==
    SectheadersOK =>
        \A i \in SectionNumbers :
            NonEmpty(i) /\ HasDwarfName(NameOf(i)) =>
                /\ Sec(ep, i).gh_is_dwarf
                /\ GroupNumber(i) # 0
                /\ GroupNumber(i) = ExpectedGroup(i)

\* C1 (amended): the same for every non-empty section with a DWARF name
\* that is not itself a group section (of type SHT_GROUP or named .group)
\* and whose name the loader does not ignore (.rela.text and the like).
C1_DwarfNamedNonGroupSectionGrouped ==
    SectheadersOK =>
        \A i \in SectionNumbers :
            /\ NonEmpty(i)
            /\ HasDwarfName(NameOf(i))
            /\ ~IsGroupSection(i)
            /\ ~_dwarf_ignorethissection(NameOf(i))
            => /\ Sec(ep, i).gh_is_dwarf
               /\ GroupNumber(i) # 0
               /\ GroupNumber(i) = ExpectedGroup(i)

\* A load that put one DWARF section into a COMDAT group, one into the
\* .dwo group or the base group.
C1_Witness ==
    /\ SectheadersOK
    /\ \E i \in SectionNumbers :
           /\ NonEmpty(i) /\ HasDwarfName(NameOf(i)) /\ ~IsGroupSection(i)
           /\ Sec(ep, i).gh_is_dwarf
           /\ ListingGroups(i) # {}
           /\ GroupNumber(i) >= FirstComdatGroupNumber
    /\ \E j \in SectionNumbers :
           Sec(ep, j).gh_is_dwarf /\ GroupNumber(j) \in {DW_GROUPNUMBER_BASE, DW_GROUPNUMBER_DWO}

\* C2: after a successful section-header load the sections with a nonzero
\* group number are exactly the sections marked gh_is_dwarf, and no section
\* is listed by two groups.
C2_GroupsPartitionDwarfSections ==
    SectheadersOK =>
        /\ {i \in SectionNumbers : GroupNumber(i) # 0}
               = {i \in SectionNumbers : Sec(ep, i).gh_is_dwarf}
        /\ \A i \in SectionNumbers : Cardinality(ListingGroups(i)) <= 1

\* C3: every member a SHT_GROUP is accepted with is a section number below
\* f_loc_shdr.g_count: no group number is read or written outside the
\* loaded section-header array.
C3_GroupMembersInsideTable ==
    /\ last.wild = <<>>
    /\ \A s \in SectionNumbers :
           \A m \in GroupMembers(s) : m < ep.f_loc_shdr_g_count

\* C8: the groups that list a member are numbered 3, 4, 5, ... in section
\* table order: every listed section of the table carries the number of
\* its group, which is never 0, 1 or 2, no two groups share a number, and
\* f_sg_next_group_number has advanced past the last one.
C8_ComdatGroupsNumberedFromThree ==
    SectheadersOK =>
        /\ \A s \in GroupsWithMembers :
               /\ GroupNumberOf(s) \notin
                      {DW_GROUPNUMBER_ANY, DW_GROUPNUMBER_BASE, DW_GROUPNUMBER_DWO}
               /\ \A m \in GroupMembers(s) \cap SectionNumbers :
                      GroupNumber(m) = GroupNumberOf(s)
               /\ \A t \in GroupsWithMembers :
                      t # s => \A m \in GroupMembers(s) \cap SectionNumbers,
                                  n \in GroupMembers(t) \cap SectionNumbers :
                                    GroupNumber(m) # GroupNumber(n)
        /\ ep.f_sg_next_group_number
               = FirstComdatGroupNumber + Cardinality(GroupsWithMembers)
        /\ \A i \in SectionNumbers :
               GroupNumber(i) >= FirstComdatGroupNumber => ListingGroups(i) # {}

\* A load of two groups, numbered 3 and 4.
C8_Witness ==
    /\ SectheadersOK
    /\ Cardinality(GroupsWithMembers) >= 2
    /\ \E i, j \in SectionNumbers :
           GroupNumber(i) = FirstComdatGroupNumber
           /\ GroupNumber(j) = FirstComdatGroupNumber + 1

\* An object with no section whose name ends in .dwo and no group section.
NoDwoNoGroups ==
    \A i \in SectionNumbers :
        ~string_endswith(NameOf(i), Name_dwo) /\ ~IsGroupSection(i)

InRangeSection(v) == Lt(v, U(ep.f_loc_shdr_g_count))

EntryPoints ==
    { "_dwarf_load_elf_header", "_dwarf_load_elf_sectheaders",
      "_dwarf_load_elf_symstr", "_dwarf_load_elf_symtab_symbols",
      "_dwarf_load_elf_relx" }

\* The ranges the loader tests before it reads them.
RangeKindsChecked == {"shdr", "shstrings", "symstr", "relx"}

\* offset + size <= file size in exact arithmetic.
InFile(r) == ExactSumLe(r.offset, r.size, ep.f_filesize)

RejectedAsLarge(k) ==
    /\ k = Len(last.ranges)
    /\ last.res = DW_DLV_ERROR
    /\ last.errs = <<"DW_DLE_SECTION_SIZE_OR_OFFSET_LARGE">>
    /\ \A j \in 1..Len(last.reads) : last.reads[j].what # last.ranges[k].what

\* C4: every range of the section-header table, the section-name strings,
\* the symbol strings or a relocation section that the loader reads lies in
\* the file in exact arithmetic, and a range that does not is refused with
\* DW_DLE_SECTION_SIZE_OR_OFFSET_LARGE before it is read.
C4_AcceptedRangesLieInFile ==
    /\ \A j \in 1..Len(last.reads) :
           last.reads[j].what \in RangeKindsChecked => InFile(last.reads[j])
    /\ \A k \in 1..Len(last.ranges) :
           InFile(last.ranges[k]) \/ RejectedAsLarge(k)

\* A call that read the section-header table up to the last byte of the
\* file and then refused a string table whose offset + size wraps.
C4_Witness ==
    /\ last.op = "_dwarf_load_elf_sectheaders"
    /\ Len(last.ranges) = 2
    /\ \E j \in 1..Len(last.reads) :
           /\ last.reads[j].what = "shdr"
           /\ Add(last.reads[j].offset, last.reads[j].size) = ep.f_filesize
    /\ RejectedAsLarge(2)
    /\ AddWithCarry(last.ranges[2].offset, last.ranges[2].size)[2] = 1

\* The DW_DLE_* codes the loader assigns.
DW_DLE_Codes ==
    { "DW_DLE_ALLOC_FAIL", "DW_DLE_BAD_TYPE_SIZE", "DW_DLE_OFFSET_SIZE",
      "DW_DLE_SEEK_OFF_END", "DW_DLE_READ_OFF_END", "DW_DLE_READ_ERROR",
      "DW_DLE_SECTION_SIZE_ERROR", "DW_DLE_SECTION_SIZE_OR_OFFSET_LARGE",
      "DW_DLE_ELF_SECTION_COUNT_MISMATCH", "DW_DLE_SECTION_INDEX_BAD",
      "DW_DLE_ELF_STRING_SECTION_MISSING", "DW_DLE_ELF_STRING_SECTION_ERROR",
      "DW_DLE_SECTION_STRING_OFFSET_BAD", "DW_DLE_ELF_SECTION_LINK_ERROR",
      "DW_DLE_ELF_SECTION_GROUP_ERROR", "DW_DLE_ELF_SECTION_ERROR",
      "DW_DLE_INTEGER_TOO_SMALL", "DW_DLE_INTERNAL_NULL_POINTER" }

\* C5: an entry point returns DW_DLV_OK, DW_DLV_NO_ENTRY or DW_DLV_ERROR;
\* when it returns DW_DLV_ERROR the call assigned a DW_DLE_* code to
\* *errcode, and otherwise it did not assign *errcode.
C5_StatusAndErrcode ==
    last.op \in EntryPoints =>
        /\ last.res \in {DW_DLV_OK, DW_DLV_NO_ENTRY, DW_DLV_ERROR}
        /\ last.res = DW_DLV_ERROR =>
               /\ last.errs # <<>>
               /\ \A k \in 1..Len(last.errs) : last.errs[k] \in DW_DLE_Codes
               /\ errcode = last.errs[Len(last.errs)]
        /\ last.res # DW_DLV_ERROR => last.errs = <<>>

\* The last of the entry points failed after the four before it did not.
C5_Witness ==
    /\ last.op = "_dwarf_load_elf_relx"
    /\ last.res = DW_DLV_ERROR
    /\ errcode \in DW_DLE_Codes

BadOffsetSize == ep.f_offsetsize # 32 /\ ep.f_offsetsize # 64

\* C6: with f_offsetsize neither 32 nor 64, _dwarf_load_elf_header and
\* _dwarf_load_elf_sectheaders return DW_DLV_ERROR with DW_DLE_OFFSET_SIZE,
\* read nothing and leave every field of the access object as it was.
C6_BadOffsetSizeRefused ==
    [][ (BadOffsetSize /\ last' # last) =>
            /\ last'.op \in {"_dwarf_load_elf_header", "_dwarf_load_elf_sectheaders"}
            /\ last'.res = DW_DLV_ERROR
            /\ last'.errs = <<"DW_DLE_OFFSET_SIZE">>
            /\ last'.reads = <<>>
            /\ ep' = ep ]_vars

C6_Witness ==
    /\ BadOffsetSize
    /\ last.op = "_dwarf_load_elf_sectheaders"
    /\ last.res = DW_DLV_ERROR

\* The call got as far as naming the sections, and whether naming them
\* returned DW_DLV_OK: the step after it ran.
NamestringRan ==
    /\ last.op = "_dwarf_load_elf_sectheaders"
    /\ \E k \in 1..Len(last.steps) : last.steps[k] = "namestring"

NamestringOK ==
    \E k \in 1..Len(last.steps) : last.steps[k] = "find_sym_sections"

\* sh_name of section i lies in the loaded string table and a NUL byte
\* follows it inside the table.
NameInTable(i) ==
    LET length == ep.f_elf_shstrings_length
        name == Sec(ep, i).gh_name
    IN  /\ Lt(name, length)
        /\ \E k \in N(name)..(N(length) - 1) :
               CharOfSection(Deref(ep.f_elf_shstrings_data).sec, k) = NUL

PointsAtName(i) ==
    Sec(ep, i).gh_namestring = [kind |-> "table", off |-> Sec(ep, i).gh_name]

\* C7: when _dwarf_elf_load_sect_namestring returns DW_DLV_OK every
\* section's sh_name is below the string-table length with a NUL at or
\* after it inside the table, and gh_namestring points at that name;
\* otherwise it returned DW_DLV_ERROR with DW_DLE_SECTION_STRING_OFFSET_BAD
\* at the first section whose sh_name is not so, which has the placeholder
\* name, the sections before it have their names and those after it none.
C7_SectionNamesValidated ==
    NamestringRan =>
        IF NamestringOK
        THEN \A i \in 0..(ep.f_loc_shdr_g_count - 1) :
                 NameInTable(i) /\ PointsAtName(i)
        ELSE /\ last.res = DW_DLV_ERROR
             /\ last.errs = <<"DW_DLE_SECTION_STRING_OFFSET_BAD">>
             /\ \E i \in 0..(ep.f_loc_shdr_g_count - 1) :
                    /\ ~NameInTable(i)
                    /\ Sec(ep, i).gh_namestring.kind = "placeholder"
                    /\ NameString(ep, Sec(ep, i)) = PlaceholderName
                    /\ \A j \in 0..(i - 1) : NameInTable(j) /\ PointsAtName(j)
                    /\ \A j \in (i + 1)..(ep.f_loc_shdr_g_count - 1) :
                           Sec(ep, j).gh_namestring.kind = "null"

\* The scan stopped at a section after the first whose sh_name is inside
\* the table but has no NUL after it.
C7_Witness ==
    /\ NamestringRan
    /\ ~NamestringOK
    /\ \E i \in 1..(ep.f_loc_shdr_g_count - 1) :
           /\ Sec(ep, i).gh_namestring.kind = "placeholder"
           /\ Lt(Sec(ep, i).gh_name, ep.f_elf_shstrings_length)

(***************************************************************************)
(* The byte order of the fields.                                           *)
(***************************************************************************)
\* v is the field bytes decoded through ep->f_copy_word.
BySelector(v, bytes) == v = ASNAR(ep.f_copy_word, bytes)

SelectorAsOpened == ep.f_copy_word = OpenedAccess(file, host).f_copy_word

HeaderBySelector ==
    IsNull(ep.f_ehdr) \/
        LET h == Deref(ep.f_ehdr)
        IN  /\ BySelector(h.ge_machine, file.ehdr.e_machine)
            /\ BySelector(h.ge_shoff, file.ehdr.e_shoff)
            /\ BySelector(h.ge_shentsize, file.ehdr.e_shentsize)
            /\ BySelector(h.ge_shnum, file.ehdr.e_shnum)
            /\ BySelector(h.ge_shstrndx, file.ehdr.e_shstrndx)

SectionsBySelector ==
    \A i \in SectionNumbers :
        LET g == Sec(ep, i)
            r == RawShdr(i)
        IN  /\ BySelector(g.gh_name, r.sh_name)
            /\ BySelector(g.gh_type, r.sh_type)
            /\ BySelector(g.gh_flags, r.sh_flags)
            /\ BySelector(g.gh_offset, r.sh_offset)
            /\ BySelector(g.gh_size, r.sh_size)
            /\ BySelector(g.gh_link, r.sh_link)
            /\ BySelector(g.gh_info, r.sh_info)
            /\ BySelector(g.gh_entsize, r.sh_entsize)

SymbolsBySelector ==
    IsNull(ep.f_symtab) \/
        \A i \in 1..Len(Deref(ep.f_symtab)) :
            LET g == Deref(ep.f_symtab)[i]
                r == RawRec(ep.f_symtab_sect_index, i - 1)
            IN  /\ BySelector(g.gs_name, r.st_name)
                /\ BySelector(g.gs_value, r.st_value)
                /\ BySelector(g.gs_size, r.st_size)
                /\ BySelector(g.gs_info, r.st_info)
                /\ BySelector(g.gs_other, r.st_other)
                /\ BySelector(g.gs_shndx, r.st_shndx)

RelocationsBySelector ==
    \A s \in SectionNumbers :
        IsNull(Sec(ep, s).gh_rels) \/
            \A i \in 1..Len(Deref(Sec(ep, s).gh_rels)) :
                LET g == Deref(Sec(ep, s).gh_rels)[i]
                    r == RawRec(s, i - 1)
                IN  /\ BySelector(g.gr_offset, r.r_offset)
                    /\ BySelector(g.gr_info, r.r_info)
                    /\ g.gr_is_rela =>
                           g.gr_addend = SIGN_EXTEND(ASNAR(ep.f_copy_word, r.r_addend),
                                                     Len(r.r_addend))

GroupWordsBySelector ==
    \A s \in SectionNumbers :
        LET p == Sec(ep, s).gh_sht_group_array
        IN  IsNull(p) \/
                /\ BySelector(U(1), WordOfSection(s, 0))
                /\ \A k \in 2..Len(Deref(p)) :
                       BySelector(U(Deref(p)[k]), WordOfSection(s, k - 1))

\* C11 (as stated): the selector f_copy_word is the one chosen when the
\* object was opened, and every field of the ELF header, the section
\* headers, the symbols, the relocation records and the SHT_GROUP words
\* that the loader holds is the file's bytes decoded through it.
C11_EveryFieldBySelector ==
    /\ SelectorAsOpened
    /\ HeaderBySelector
    /\ SectionsBySelector
    /\ SymbolsBySelector
    /\ RelocationsBySelector
    /\ GroupWordsBySelector

\* C11 (amended): the same for the fields of the ELF header, the section
\* headers, the symbols and the relocation records; the SHT_GROUP words
\* are not among them.
C11_RecordFieldsBySelector ==
    /\ SelectorAsOpened
    /\ HeaderBySelector
    /\ SectionsBySelector
    /\ SymbolsBySelector
    /\ RelocationsBySelector

\* An object of the other byte order than the host's with its symbols and
\* the relocation records of a section loaded.
C11_Witness ==
    /\ ep.f_copy_word = "_dwarf_memcpy_swap_bytes"
    /\ ~IsNull(ep.f_symtab) /\ Len(Deref(ep.f_symtab)) > 0
    /\ \E s \in SectionNumbers :
           ~IsNull(Sec(ep, s).gh_rels) /\ Len(Deref(Sec(ep, s).gh_rels)) > 0

(***************************************************************************)
(* Relocation sections.                                                    *)
(***************************************************************************)
\* The step is a call _dwarf_load_elf_relx(ep, secnum, localr) with ep not
\* null and secnum a section of the table.
RelxStep ==
    /\ pc = "symtab"
    /\ last'.op = "_dwarf_load_elf_relx"
    /\ ~last'.arg[1]
    /\ last'.arg[2] < ep.f_loc_shdr_g_count

IsRelocationSection(s) ==
    Sec(ep, s).gh_type = U(SHT_REL) \/ Sec(ep, s).gh_type = U(SHT_RELA)

\* sh_info of section s is a section of the table, marked gh_is_dwarf or not.
TargetInTable(s) == Lt(Sec(ep, s).gh_info, U(ep.f_loc_shdr_g_count))
TargetIsDwarf(s) == TargetInTable(s) /\ Sec(ep, N(Sec(ep, s).gh_info)).gh_is_dwarf

\* No relocation concerns DWARF in section s.
NotDwarfRelocations(s) ==
    ~IsRelocationSection(s) \/ (TargetInTable(s) /\ ~TargetIsDwarf(s))

\* The call of the step ignored section s.
RelxIgnored(s) ==
    /\ last'.res = DW_DLV_OK
    /\ last'.reads = <<>>
    /\ Sec(ep', s).gh_rels = Sec(ep, s).gh_rels
    /\ Sec(ep', s).gh_relcount = Sec(ep, s).gh_relcount

\* The call of the step loaded records only into section s, a relocation
\* section with a DWARF target, or loaded none.
RelxLoadedOnlyForDwarf(s) ==
    \A t \in SectionNumbers :
        Sec(ep', t).gh_rels # Sec(ep, t).gh_rels =>
            t = s /\ IsRelocationSection(s) /\ TargetIsDwarf(s)

\* C12 (as stated): a call of _dwarf_load_elf_relx on a section that is
\* not SHT_REL/SHT_RELA, or whose target is not marked gh_is_dwarf, returns
\* DW_DLV_OK, reads nothing and leaves gh_rels and gh_relcount as they
\* were; records are loaded only for a relocation section with a target
\* marked gh_is_dwarf.
C12_NonDwarfRelocationsIgnored ==
    [][ RelxStep =>
            LET s == last'.arg[2]
            IN  /\ NotDwarfRelocations(s) => RelxIgnored(s)
                /\ RelxLoadedOnlyForDwarf(s) ]_vars

\* C12 (amended): the same for a section that is not empty (neither
\* SHT_NULL nor SHT_NOBITS).
C12_NonEmptyNonDwarfRelocationsIgnored ==
    [][ RelxStep =>
            LET s == last'.arg[2]
            IN  /\ NonEmpty(s) /\ NotDwarfRelocations(s) => RelxIgnored(s)
                /\ RelxLoadedOnlyForDwarf(s) ]_vars

\* A SHT_RELA section whose target is not a DWARF section was ignored.
C12_Witness ==
    /\ last.op = "_dwarf_load_elf_relx"
    /\ ~last.arg[1] /\ last.arg[2] < ep.f_loc_shdr_g_count
    /\ IsRelocationSection(last.arg[2])
    /\ TargetInTable(last.arg[2]) /\ ~TargetIsDwarf(last.arg[2])
    /\ last.res = DW_DLV_OK
    /\ IsNull(Sec(ep, last.arg[2]).gh_rels)

\* The call _dwarf_load_elf_relx(ep, secnum, localr) loaded the records of
\* section secnum.
RelxLoaded ==
    /\ last.op = "_dwarf_load_elf_relx"
    /\ last.res = DW_DLV_OK
    /\ ~IsNull(Sec(ep, last.arg[2]).gh_rels)

\* The generic records of the loaded section and record i of it in the file.
LoadedRels == Deref(Sec(ep, last.arg[2]).gh_rels)
FileRel(i) == RawRec(last.arg[2], i - 1)

\* The bytes of a field of the file, least significant first.
FieldLSBFirst(bytes) ==
    IF ep.f_endian = "DW_OBJECT_LSB" THEN bytes ELSE Reverse(bytes)

\* The two's complement number a field of the file holds, in 64 bits.
SignedFieldValue(bytes) ==
    LET b == FieldLSBFirst(bytes)
        fill == IF b[Len(b)] >= 128 THEN 255 ELSE 0
    IN  LEval(b \o [i \in 1..(8 - Len(b)) |-> fill])

\* The width in bytes of r_addend in the object's class.
AddendWidth == IF ep.f_offsetsize = 64 THEN 8 ELSE 4

\* C13: every record decoded as RELA has gr_is_rela TRUE and gr_addend equal
\* to the r_addend of the file sign-extended from its width (32 bits in
\* ELF32, 64 bits in ELF64); every record decoded as REL has gr_is_rela
\* FALSE and gr_addend 0.
C13_AddendSignExtended ==
    RelxLoaded =>
        \A i \in 1..Len(LoadedRels) :
            IF last.arg[3] = "RelocIsRela"
            THEN /\ LoadedRels[i].gr_is_rela
                 /\ Len(FileRel(i).r_addend) = AddendWidth
                 /\ LoadedRels[i].gr_addend = SignedFieldValue(FileRel(i).r_addend)
            ELSE /\ ~LoadedRels[i].gr_is_rela
                 /\ LoadedRels[i].gr_addend = U(0)

\* A 32-bit RELA record with a negative addend was loaded.
C13_Witness ==
    /\ RelxLoaded
    /\ last.arg[3] = "RelocIsRela"
    /\ \E i \in 1..Len(LoadedRels) :
          /\ Len(FileRel(i).r_addend) = 4
          /\ LoadedRels[i].gr_addend[4] = 65535
          /\ LoadedRels[i].gr_addend[2] < 65535

\* The number r_info of record i holds in the file, and the number its
\* bytes 0..3 hold, both in the byte order of the file.
FileInfo(i) == LEval(FieldLSBFirst(FileRel(i).r_info))
FileInfoWord(i) == LEval(FieldLSBFirst(SubSeq(FileRel(i).r_info, 1, 4)))

\* Byte k (0-based) of r_info of record i as the file holds it.
FileInfoByte(i, k) == U(FileRel(i).r_info[k + 1])

\* v >> 32, v & 0xffffffff, v >> 8 and v & 0xff of a Dwarf_Unsigned, and
\* (sym << 8) | type.
High32(v) == <<v[3], v[4], 0, 0>>
Low32(v) == <<v[1], v[2], 0, 0>>
Above8(v) ==
    << v[1] \div 256 + 256 * (v[2] % 256), v[2] \div 256 + 256 * (v[3] % 256),
       v[3] \div 256 + 256 * (v[4] % 256), v[4] \div 256 >>
Low8(v) == <<v[1] % 256, 0, 0, 0>>
Recomposed32(sym, type) ==
    << 256 * (sym[1] % 256) + type[1], sym[1] \div 256 + 256 * (sym[2] % 256),
       sym[2] \div 256 + 256 * (sym[3] % 256), sym[3] \div 256 + 256 * (sym[4] % 256) >>

Mips64LittleEndian ==
    ep.f_machine = U(EM_MIPS) /\ ep.f_endian = "DW_OBJECT_LSB"

Detections(f) ==
    { [ res |-> DW_DLV_OK, errs |-> <<>>, ftype |-> "DW_FTYPE_ELF",
        endian |-> IF f.endian = "little" THEN "DW_OBJECT_LSB" ELSE "DW_OBJECT_MSB",
        offsetsize |-> f.offsetsize, filesize |-> f.filesize ] }
    \cup { [ res |-> DW_DLV_NO_ENTRY, errs |-> <<>>, ftype |-> 0, endian |-> 0,
             offsetsize |-> 0, filesize |-> U(0) ] }
    \cup { [ res |-> DW_DLV_ERROR, errs |-> <<code>>, ftype |-> 0, endian |-> 0,
             offsetsize |-> 0, filesize |-> U(0) ] :
             code \in {"DW_DLE_READ_ERROR", "DW_DLE_SEEK_ERROR"} }

\* The fields of the calloc'ed object the constructor sets; strdup may
\* return null.
ConstructedAccess(fd, det, pathcopy) ==
    [ f_ident |-> <<"F", 1>>,
      f_fd |-> fd,
      f_destruct_close_fd |-> FALSE,
      f_is_64bit |-> det.offsetsize = 64,
      f_filesize |-> det.filesize,
      f_offsetsize |-> det.offsetsize,
      f_pointersize |-> det.offsetsize,
      f_endian |-> det.endian,
      f_ftype |-> det.ftype,
      f_path |-> pathcopy ]

\* A constructor that allocates and stores the object before it looks at
\* what detection returned.
construct_elf_access_store_first(c, fd, path, det) ==
    LET c1 == [c EXCEPT !.errs = @ \o det.errs]
        a1 == Alloc(c1)
        a2 == Alloc(a1[2])
        stored == [a2[2] EXCEPT !.ep =
                      PtrTo(ConstructedAccess(fd, det,
                                IF a2[1] THEN PtrTo(path) ELSE NULL))]
    IN  IF ~a1[1] THEN Fail(a1[2], "DW_DLE_ALLOC_FAIL")
        ELSE IF det.res # DW_DLV_OK THEN Ret(det.res, stored)
        ELSE Ret(DW_DLV_OK, stored)

\* c.ep is *mp; det is what dwarf_object_detector_fd returns.
dwarf_construct_elf_access(c, fd, path, det) ==
    LET c1 == [c EXCEPT !.errs = @ \o det.errs]
    IN  IF det.res # DW_DLV_OK THEN Ret(det.res, c1)
        ELSE
        LET a1 == Alloc(c1)
        IN  IF ~a1[1] THEN Fail(a1[2], "DW_DLE_ALLOC_FAIL")
            ELSE
            LET a2 == Alloc(a1[2])
                pathcopy == IF a2[1] THEN PtrTo(path) ELSE NULL
            IN  Ret(DW_DLV_OK,
                    [a2[2] EXCEPT !.ep = PtrTo(ConstructedAccess(fd, det, pathcopy))])

\* What the caller may hold in *mp before the call: null or an object
\* already destructed.
StaleAccess == PtrTo([f_ident |-> <<"X", 1>>])

ConstructFaults == {[rd |-> 0, al |-> k, heap |-> 0] : k \in 0..2}

ConstructInit ==
    /\ \E run \in FormatFiles \X {"little", "big"} : file = run[1] /\ host = run[2]
    /\ ep \in {NULL, StaleAccess}
    /\ pc = "start"
    /\ last = [ op |-> "none", arg |-> <<>>, res |-> DW_DLV_OK, errs |-> <<>>,
                nalloc |-> 0 ]
    /\ errcode = "DW_DLE_NE"
    /\ sessions = <<>> /\ errors = <<>>

ConstructElfAccess ==
    /\ pc = "start"
    /\ \E det \in Detections(file), flt \in ConstructFaults :
          LET r == dwarf_construct_elf_access(NewCall(ep, flt), 3, <<"a", ".", "o">>, det)
          IN  /\ ep' = r.c.ep
              /\ last' = [ op |-> "dwarf_construct_elf_access", arg |-> det,
                           res |-> r.res, errs |-> r.c.errs, nalloc |-> r.c.nalloc ]
              /\ errcode' = IF r.c.errs = <<>> THEN errcode
                            ELSE r.c.errs[Len(r.c.errs)]
              /\ pc' = IF r.res = DW_DLV_OK THEN "constructed" ELSE "failed"
    /\ UNCHANGED <<file, host, sessions, errors>>

ConstructNext == ConstructElfAccess

ConstructSpec == ConstructInit /\ [][ConstructNext]_vars

\* C15: dwarf_construct_elf_access stores a new object in *mp and returns
\* DW_DLV_OK only when object detection returned DW_DLV_OK; when detection
\* returns DW_DLV_NO_ENTRY or DW_DLV_ERROR the call returns that status,
\* allocates nothing and leaves *mp as it was.
C15_ConstructOnlyOnDetection ==
    [][ last'.op = "dwarf_construct_elf_access" /\ pc = "start" =>
            LET det == last'.arg
            IN  /\ last'.res = DW_DLV_OK \/ ep' # ep => det.res = DW_DLV_OK
                /\ last'.res = DW_DLV_OK =>
                       /\ ~IsNull(ep') /\ ep' # ep
                       /\ Deref(ep').f_ident = <<"F", 1>>
                       /\ Deref(ep').f_offsetsize = det.offsetsize
                       /\ Deref(ep').f_filesize = det.filesize
                       /\ Deref(ep').f_endian = det.endian
                /\ det.res # DW_DLV_OK =>
                       /\ last'.res = det.res
                       /\ last'.nalloc = 0
                       /\ ep' = ep ]_vars

\* Detection failed with *mp holding a stale pointer, which the call left.
C15_Witness ==
    /\ last.op = "dwarf_construct_elf_access"
    /\ last.arg.res = DW_DLV_ERROR
    /\ last.res = DW_DLV_ERROR
    /\ ep = StaleAccess

(***************************************************************************)
(* Sessions.  A caller opens sessions with dwarf_init_path, may tie one to *)
(* another, queries them, releases the errors it was given and finishes    *)
(* the sessions.  A session handle is a number, 0 the null handle; so is   *)
(* an error handle.                                                        *)
(***************************************************************************)
NoSessions == [d \in 1..MaxSessions |-> [state |-> "unopened", tied |-> 0]]
NoErrors == [e \in 1..MaxErrors |-> [state |-> "free", owner |-> 0]]

\* The next session and the next error object the library can hand out, 0
\* when the caller has had them all.
FreshSession(S) ==
    IF \E d \in 1..MaxSessions : S[d].state = "unopened"
    THEN CHOOSE d \in 1..MaxSessions :
             /\ S[d].state = "unopened"
             /\ \A k \in 1..(d - 1) : S[k].state # "unopened"
    ELSE 0
FreshError(E) ==
    IF \E e \in 1..MaxErrors : E[e].state = "free"
    THEN CHOOSE e \in 1..MaxErrors :
             /\ E[e].state = "free"
             /\ \A k \in 1..(e - 1) : E[k].state # "free"
    ELSE 0

\* What a call leaves: its status, the handles it wrote to *dbg and *error,
\* and the sessions and error objects afterwards.
ApiRet(res, dbg, error, S, E) ==
    [res |-> res, dbg |-> dbg, error |-> error, sessions |-> S, errors |-> E]

\* An opening that hands out a session together with the error.
dwarf_init_path_error_with_session(S, E, outcome) ==
    IF outcome = DW_DLV_OK
    THEN ApiRet(DW_DLV_OK, FreshSession(S), 0,
                [S EXCEPT ![FreshSession(S)].state = "open"], E)
    ELSE IF outcome = DW_DLV_NO_ENTRY
    THEN ApiRet(DW_DLV_NO_ENTRY, 0, 0, S, E)
    ELSE ApiRet(DW_DLV_ERROR, FreshSession(S), FreshError(E),
                [S EXCEPT ![FreshSession(S)].state = "open"],
                [E EXCEPT ![FreshError(E)] =
                    [state |-> "live", owner |-> FreshSession(S)]])

\* dwarf_init_path: OK opens a session; NO_ENTRY (no such file, or no DWARF
\* in it) gives nothing; ERROR gives an error object and no session.
dwarf_init_path(S, E, outcome) ==
    IF outcome = DW_DLV_OK
    THEN ApiRet(DW_DLV_OK, FreshSession(S), 0,
                [S EXCEPT ![FreshSession(S)].state = "open"], E)
    ELSE IF outcome = DW_DLV_NO_ENTRY
    THEN ApiRet(DW_DLV_NO_ENTRY, 0, 0, S, E)
    ELSE ApiRet(DW_DLV_ERROR, 0, FreshError(E), S,
                [E EXCEPT ![FreshError(E)] = [state |-> "live", owner |-> 0]])

\* dwarf_sec_group_sizes, for any query of an open session: an ERROR comes
\* with an error object attributed to the session.
dwarf_sec_group_sizes(S, E, dbg, outcome) ==
    IF outcome = DW_DLV_ERROR
    THEN ApiRet(DW_DLV_ERROR, dbg, FreshError(E), S,
                [E EXCEPT ![FreshError(E)] = [state |-> "live", owner |-> dbg]])
    ELSE ApiRet(outcome, dbg, 0, S, E)

\* dwarf_dealloc_error(dbg, error) is permitted for a live error of the
\* open session dbg, and with a null dbg for the error of an opening that
\* failed.
DeallocErrorPermitted(S, E, dbg, error) ==
    /\ error # 0 /\ E[error].state = "live"
    /\ E[error].owner = dbg
    /\ dbg # 0 => S[dbg].state = "open"

dwarf_dealloc_error(S, E, dbg, error) ==
    ApiRet(DW_DLV_OK, dbg, 0, S, [E EXCEPT ![error].state = "released"])

\* dwarf_set_tied_dbg(dbg, tied): tied is a non-owning reference, 0 to
\* detach.
dwarf_set_tied_dbg(S, E, dbg, tied) ==
    ApiRet(DW_DLV_OK, dbg, 0, [S EXCEPT ![dbg].tied = tied], E)

\* A finish that also finishes the tied session.
dwarf_finish_with_tied(S, E, dbg) ==
    LET gone == {dbg} \cup (IF S[dbg].tied # 0 THEN {S[dbg].tied} ELSE {})
    IN  ApiRet(DW_DLV_OK, 0, 0,
               [d \in 1..MaxSessions |->
                   IF d \in gone /\ S[d].state = "open"
                   THEN [S[d] EXCEPT !.state = "finished"] ELSE S[d]],
               [e \in 1..MaxErrors |->
                   IF E[e].state = "live" /\ E[e].owner \in gone
                   THEN [E[e] EXCEPT !.state = "released"] ELSE E[e]])

\* dwarf_finish(dbg) releases the session and every error object of it the
\* caller did not release, and nothing else.
dwarf_finish(S, E, dbg) ==
    ApiRet(DW_DLV_OK, 0, 0,
           [S EXCEPT ![dbg].state = "finished"],
           [e \in 1..MaxErrors |->
               IF E[e].state = "live" /\ E[e].owner = dbg
               THEN [E[e] EXCEPT !.state = "released"] ELSE E[e]])

Statuses == {DW_DLV_OK, DW_DLV_NO_ENTRY, DW_DLV_ERROR}

SessionInit ==
    /\ file = Encode(Described(64, <<"debug", "symtab", "strtab">>), 64, "little")
    /\ host = "little"
    /\ ep = NULL
    /\ pc = "caller"
    /\ last = [op |-> "none", arg |-> <<>>, res |-> DW_DLV_OK, dbg |-> 0, error |-> 0]
    /\ errcode = "DW_DLE_NE"
    /\ sessions = NoSessions
    /\ errors = NoErrors

Called(op, arg, r) ==
    /\ last' = [op |-> op, arg |-> arg, res |-> r.res, dbg |-> r.dbg, error |-> r.error]
    /\ sessions' = r.sessions
    /\ errors' = r.errors
    /\ UNCHANGED <<file, host, ep, pc, errcode>>

\* exampleinit, one_file_show_groups: res = dwarf_init_path(..., &dbg, &error)
InitPath ==
    \E outcome \in Statuses :
        /\ outcome = DW_DLV_OK => FreshSession(sessions) # 0
        /\ outcome = DW_DLV_ERROR => FreshError(errors) # 0
        /\ Called("dwarf_init_path", <<>>, dwarf_init_path(sessions, errors, outcome))

\* one_file_show_groups: res = dwarf_sec_group_sizes(dbg, ..., &error)
SecGroupSizes ==
    \E dbg \in 1..MaxSessions, outcome \in Statuses :
        /\ sessions[dbg].state = "open"
        /\ outcome = DW_DLV_ERROR => FreshError(errors) # 0
        /\ Called("dwarf_sec_group_sizes", <<dbg>>,
                  dwarf_sec_group_sizes(sessions, errors, dbg, outcome))

\* exampleinit, one_file_show_groups: dwarf_dealloc_error(dbg, error)
DeallocError ==
    \E dbg \in 0..MaxSessions, error \in 1..MaxErrors :
        /\ DeallocErrorPermitted(sessions, errors, dbg, error)
        /\ Called("dwarf_dealloc_error", <<dbg, error>>,
                  dwarf_dealloc_error(sessions, errors, dbg, error))

\* example2 and example3: dwarf_set_tied_dbg(dbg, tieddbg, error) and
\* dwarf_set_tied_dbg(dbg, NULL, error)
SetTiedDbg ==
    \E dbg \in 1..MaxSessions, tied \in 0..MaxSessions :
        /\ sessions[dbg].state = "open"
        /\ tied # dbg
        /\ tied # 0 => sessions[tied].state = "open"
        /\ Called("dwarf_set_tied_dbg", <<dbg, tied>>,
                  dwarf_set_tied_dbg(sessions, errors, dbg, tied))

\* exampleinit: dwarf_finish(dbg)
Finish ==
    \E dbg \in 1..MaxSessions :
        /\ sessions[dbg].state = "open"
        /\ Called("dwarf_finish", <<dbg>>, dwarf_finish(sessions, errors, dbg))

SessionNext ==
    \/ InitPath
    \/ SecGroupSizes
    \/ DeallocError
    \/ SetTiedDbg
    \/ Finish

SessionSpec == SessionInit /\ [][SessionNext]_vars

OpenSessions(S) == {d \in 1..MaxSessions : S[d].state = "open"}
LiveErrors(E) == {e \in 1..MaxErrors : E[e].state = "live"}

\* C16: when dwarf_init_path returns DW_DLV_ERROR the session handle is
\* null, no session was opened and dwarf_dealloc_error(NULL, error) is
\* permitted; that call releases the error object and opens nothing; when
\* dwarf_init_path returns DW_DLV_NO_ENTRY there is no session and no
\* error object to release.
C16_DeallocErrorOnNullSession ==
    [][ /\ last'.op = "dwarf_init_path" /\ last'.res = DW_DLV_ERROR /\ last' # last =>
            /\ last'.dbg = 0
            /\ sessions' = sessions
            /\ DeallocErrorPermitted(sessions', errors', 0, last'.error)
            /\ LiveErrors(errors') = LiveErrors(errors) \cup {last'.error}
        /\ last'.op = "dwarf_init_path" /\ last'.res = DW_DLV_NO_ENTRY /\ last' # last =>
            /\ last'.dbg = 0 /\ last'.error = 0
            /\ sessions' = sessions /\ errors' = errors
        /\ last'.op = "dwarf_dealloc_error" /\ last' # last /\ last'.arg[1] = 0 =>
            /\ errors'[last'.arg[2]].state = "released"
            /\ LiveErrors(errors') = LiveErrors(errors) \ {last'.arg[2]}
            /\ sessions' = sessions ]_vars

\* The error of a failed opening, the only thing the caller held, was
\* released against the null session.
C16_Witness ==
    /\ last.op = "dwarf_dealloc_error"
    /\ last.arg[1] = 0
    /\ errors[last.arg[2]].state = "released"
    /\ OpenSessions(sessions) = {}
    /\ LiveErrors(errors) = {}

\* C17: a session that is open stays open through every call but
\* dwarf_finish on that very session: neither dwarf_set_tied_dbg(dbg,
\* NULL) nor dwarf_finish(dbg) of a session it is tied to finishes it.
C17_TiedSessionNotOwned ==
    [][ \A t \in 1..MaxSessions :
            sessions[t].state = "open" /\ sessions'[t].state # "open" =>
                last'.op = "dwarf_finish" /\ last'.arg = <<t>> ]_vars

\* The base session was finished while its tied session is still open.
C17_Witness ==
    /\ last.op = "dwarf_finish"
    /\ sessions[last.arg[1]].state = "finished"
    /\ sessions[last.arg[1]].tied # 0
    /\ sessions[sessions[last.arg[1]].tied].state = "open"

(***************************************************************************)
(* One group for each section, and the group counters.                     *)
(***************************************************************************)
\* _dwarf_load_elf_sectheaders got as far as group setup.
GroupSetupRan ==
    /\ last.op = "_dwarf_load_elf_sectheaders"
    /\ \E k \in 1..Len(last.steps) : last.steps[k] = "setup_all_section_groups"

\* The places (group section, index in its array) at which a loaded group
\* section lists a member, and the member listed there.
Listings ==
    { x \in SectionNumbers \X (2..ep.f_loc_shdr_g_count) :
          /\ ~IsNull(Sec(ep, x[1]).gh_sht_group_array)
          /\ x[2] <= Len(Deref(Sec(ep, x[1]).gh_sht_group_array)) }
Listed(x) == Deref(Sec(ep, x[1]).gh_sht_group_array)[x[2]]

\* No section of the table is listed twice, by one group or by two.
NoSectionListedTwice ==
    \A x, y \in Listings :
        x # y /\ Listed(x) \in SectionNumbers => Listed(x) # Listed(y)

\* Every section a loaded group lists carries the number of that group,
\* also when group setup failed later.
NoAssignmentOverwritten ==
    GroupSetupRan =>
        \A x \in Listings :
            Listed(x) \in SectionNumbers =>
                GroupNumber(Listed(x)) = GroupNumberOf(x[1])

\* The codes of a read or an allocation that failed.
ReadOrAllocFailures ==
    { "DW_DLE_ALLOC_FAIL", "DW_DLE_READ_ERROR", "DW_DLE_SEEK_ERROR",
      "DW_DLE_READ_OFF_END" }

\* Group setup fails with DW_DLE_ELF_SECTION_GROUP_ERROR unless a read or
\* an allocation failed.
GroupSetupErrorCode ==
    GroupSetupRan /\ last.res = DW_DLV_ERROR =>
        /\ Len(last.errs) = 1
        /\ last.errs[1] \in {"DW_DLE_ELF_SECTION_GROUP_ERROR"} \cup ReadOrAllocFailures

SymstrOK == last.op = "_dwarf_load_elf_symstr" /\ last.res = DW_DLV_OK

\* C19: after _dwarf_load_elf_symstr returns OK the buffer of the symbol
\* strings holds f_symtab_sect_strings_max + 1 bytes, the last of them is
\* NUL, and from every offset up to the section length a NUL follows
\* inside the buffer.
C19_SymstrBufferTerminated ==
    SymstrOK =>
        /\ ~IsNull(ep.f_symtab_sect_strings)
        /\ LET buf == Deref(ep.f_symtab_sect_strings)
               max == N(ep.f_symtab_sect_strings_max)
           IN  /\ buf.size = Add(ep.f_symtab_sect_strings_max, U(1))
               /\ max < N(buf.size) /\ SymstrByte(buf, max) = NUL
               /\ \A off \in 0..max :
                      \E k \in off..max :
                          k < N(buf.size) /\ SymstrByte(buf, k) = NUL

\* Symbol strings without a NUL were loaded.
C19_Witness ==
    /\ SymstrOK
    /\ ~IsNull(ep.f_symtab_sect_strings)
    /\ ep.f_symtab_sect_strings_max = U(2)
    /\ \A k \in 0..1 : SymstrByte(Deref(ep.f_symtab_sect_strings), k) # NUL

(***************************************************************************)
(* The group counters.                                                     *)
(***************************************************************************)
\* The bit SHF_GROUP of sh_flags of section i is set.
HasGroupFlag(i) == (Sec(ep, i).gh_flags[1] \div SHF_GROUP) % 2 = 1

PlainSections == {i \in SectionNumbers : NonEmpty(i) /\ ~IsGroupSection(i)}

\* C20: after group setup returns OK f_sht_group_type_section_count is the
\* number of group sections that list a member and f_sg_next_group_number
\* has advanced by that number; f_shf_group_flag_section_count is the
\* number of non-empty non-group sections with SHF_GROUP set and
\* f_dwo_group_section_count the number of those whose name ends in .dwo.
C20_GroupCounters ==
    GroupSetupRan /\ last.res = DW_DLV_OK =>
        /\ ep.f_sht_group_type_section_count = Cardinality(GroupsWithMembers)
        /\ ep.f_sg_next_group_number
               = FirstComdatGroupNumber + Cardinality(GroupsWithMembers)
        /\ ep.f_shf_group_flag_section_count
               = Cardinality({i \in PlainSections : HasGroupFlag(i)})
        /\ ep.f_dwo_group_section_count
               = Cardinality({i \in PlainSections :
                                 string_endswith(NameOf(i), Name_dwo)})

\* A load that counted a group with a member, a section with SHF_GROUP and
\* a .dwo section.
C20_Witness ==
    /\ GroupSetupRan /\ last.res = DW_DLV_OK
    /\ ep.f_sht_group_type_section_count = 1
    /\ ep.f_sg_next_group_number = FirstComdatGroupNumber + 1
    /\ ep.f_shf_group_flag_section_count = 1
    /\ ep.f_dwo_group_section_count = 1

(***************************************************************************)
(* The order of the steps of _dwarf_load_elf_sectheaders.                  *)
(***************************************************************************)
StepOrder ==
    << "sectheaders", "sectstrings", "namestring", "find_sym_sections",
       "setup_all_section_groups" >>

SectheadersReturned == last.op = "_dwarf_load_elf_sectheaders"

\* C21: the steps a call of _dwarf_load_elf_sectheaders ran are the first
\* steps of the fixed order, every step but the last one run returned OK,
\* the call returns what the last step run returned, a step that returned
\* OK is followed by the next one, and a section count of 0 ends the call
\* in the first step with DW_DLV_NO_ENTRY.
C21_StepsInOrderUntilFirstFailure ==
    SectheadersReturned =>
        LET n == Len(last.steps)
        IN  /\ n <= Len(StepOrder)
            /\ last.steps = SubSeq(StepOrder, 1, n)
            /\ Len(last.rets) = n
            /\ \A k \in 1..(n - 1) : last.rets[k] = DW_DLV_OK
            /\ n > 0 => last.res = last.rets[n]
            /\ n > 0 /\ last.rets[n] = DW_DLV_OK => n = Len(StepOrder)
            /\ n > 0 /\ Deref(ep.f_ehdr).ge_shnum = U(0)
                   => n = 1 /\ last.res = DW_DLV_NO_ENTRY

\* A call that stopped at the name validation with DW_DLV_ERROR.
C21_Witness ==
    /\ SectheadersReturned
    /\ last.steps = SubSeq(StepOrder, 1, 3)
    /\ last.res = DW_DLV_ERROR

(***************************************************************************)
(* What a failed read_gs_section_group leaves.                             *)
(***************************************************************************)
\* The latest call of read_gs_section_group of the load returned res.
GsCallReturned(res) ==
    /\ SectheadersReturned
    /\ ~IsNull(last.gs_call)
    /\ Deref(last.gs_call).res = res

\* C22: after a call of read_gs_section_group that returned DW_DLV_ERROR
\* every section has the gh_section_group_number it had when the call
\* began, and f_sg_next_group_number, f_sht_group_type_section_count and
\* the gh_sht_group_array of the group section are as they were.
C22_FailedGroupReadLeavesNothing ==
    GsCallReturned(DW_DLV_ERROR) =>
        LET call == Deref(last.gs_call)
        IN  /\ \A i \in SectionNumbers :
                   Sec(ep, i).gh_section_group_number
                       = Sec(call.before, i).gh_section_group_number
            /\ ep.f_sg_next_group_number = call.before.f_sg_next_group_number
            /\ ep.f_sht_group_type_section_count
                   = call.before.f_sht_group_type_section_count
            /\ Sec(ep, call.s).gh_sht_group_array
                   = Sec(call.before, call.s).gh_sht_group_array

(***************************************************************************)
(* The tests a SHT_GROUP section must pass.                                *)
(***************************************************************************)
\* The number of 4-byte entries of group section s.
GroupEntries(s) == Div(Sec(ep, s).gh_size, DWARF_32BIT_SIZE)

\* The first word of group section s is GRP_COMDAT (1) in either byte
\* order.
HasComdatFlag(s) == WordOfSection(s, 0) \in { <<1, 0, 0, 0>>, <<0, 0, 0, 1>> }

SizeAtLeastOneWord(s) == Ge(Sec(ep, s).gh_size, U(DWARF_32BIT_SIZE))

EntriesFitTable(s) ==
    /\ Sec(ep, s).gh_entsize = U(DWARF_32BIT_SIZE)
    /\ Le(GroupEntries(s), U(ep.f_loc_shdr_g_count))

NoZeroMember(s) ==
    \A k \in 1..(N(GroupEntries(s)) - 1) : WordOfSection(s, k) # <<0, 0, 0, 0>>

WellFormedGroup(s) ==
    /\ SizeAtLeastOneWord(s)
    /\ EntriesFitTable(s)
    /\ HasComdatFlag(s)
    /\ NoZeroMember(s)

\* Every group section that was accepted passes the five tests.
AcceptedGroupsWellFormed ==
    SectheadersReturned =>
        \A s \in SectionNumbers :
            ~IsNull(Sec(ep, s).gh_sht_group_array) => WellFormedGroup(s)

\* A group section holding the flag word only is accepted, unless reading
\* it failed, lists nothing and leaves the next group number and the count
\* of groups as they were.
FlagOnlyGroupTakesNoNumber ==
    /\ SectheadersReturned /\ ~IsNull(last.gs_call)
    /\ WellFormedGroup(Deref(last.gs_call).s)
    /\ GroupEntries(Deref(last.gs_call).s) = U(1)
    => LET call == Deref(last.gs_call)
       IN  /\ call.res # DW_DLV_OK
               => Len(last.errs) = 1 /\ last.errs[1] \in ReadOrAllocFailures
           /\ call.res = DW_DLV_OK
               => /\ Sec(ep, call.s).gh_sht_group_array = PtrTo(<<1>>)
                  /\ ep.f_sg_next_group_number
                         = call.before.f_sg_next_group_number
                  /\ ep.f_sht_group_type_section_count
                         = call.before.f_sht_group_type_section_count

\* The latest call of read_gs_section_group was given a section that
\* fails one of the five tests.
IllFormedGroupRead ==
    /\ SectheadersReturned /\ ~IsNull(last.gs_call)
    /\ ~WellFormedGroup(Deref(last.gs_call).s)

\* C23 (as stated): a SHT_GROUP section is accepted only if its size is at
\* least 4, its sh_entsize is 4, its entry count does not exceed the
\* section count, its first word is GRP_COMDAT and no member word is 0;
\* a section failing one of these yields DW_DLV_ERROR with
\* DW_DLE_ELF_SECTION_GROUP_ERROR; a group of the flag word only is
\* accepted and takes no group number.
C23_GroupSectionValidated ==
    /\ AcceptedGroupsWellFormed
    /\ FlagOnlyGroupTakesNoNumber
    /\ IllFormedGroupRead =>
          /\ Deref(last.gs_call).res = DW_DLV_ERROR
          /\ last.errs = <<"DW_DLE_ELF_SECTION_GROUP_ERROR">>

\* C23 (amended): the same, where the code is that of an allocation or of
\* the read of the section when one that precedes the failed test failed:
\* none precedes the size test, one allocation precedes the tests of
\* sh_entsize and of the entry count, and the read and a second
\* allocation precede the tests of the words.
C23_GroupSectionValidatedUnlessReadFailed ==
    /\ AcceptedGroupsWellFormed
    /\ FlagOnlyGroupTakesNoNumber
    /\ IllFormedGroupRead =>
          LET s == Deref(last.gs_call).s
          IN  /\ Deref(last.gs_call).res = DW_DLV_ERROR
              /\ Len(last.errs) = 1
              /\ last.errs[1] \in
                     {"DW_DLE_ELF_SECTION_GROUP_ERROR"}
                     \cup (IF ~SizeAtLeastOneWord(s) THEN {}
                           ELSE IF ~EntriesFitTable(s)
                           THEN {"DW_DLE_ALLOC_FAIL"}
                           ELSE ReadOrAllocFailures)

\* A group whose second member word is 0 was refused after its first
\* member had passed.
C23_Witness ==
    /\ IllFormedGroupRead
    /\ SizeAtLeastOneWord(Deref(last.gs_call).s)
    /\ EntriesFitTable(Deref(last.gs_call).s)
    /\ HasComdatFlag(Deref(last.gs_call).s)
    /\ GroupEntries(Deref(last.gs_call).s) = U(3)
    /\ WordOfSection(Deref(last.gs_call).s, 1) # <<0, 0, 0, 0>>
    /\ last.errs = <<"DW_DLE_ELF_SECTION_GROUP_ERROR">>

(***************************************************************************)
(* The result cases of _dwarf_load_elf_relx.                               *)
(***************************************************************************)
RelxReturned == last.op = "_dwarf_load_elf_relx"

\* The call was given ep and a section of the table.
RelxOnSection == RelxReturned /\ ~last.arg[1] /\ last.arg[2] < ep.f_loc_shdr_g_count

\* Section s is a relocation section whose target is a section other than
\* the null section and is marked gh_is_dwarf.
DwarfRelated(s) ==
    /\ IsRelocationSection(s)
    /\ TargetIsDwarf(s)
    /\ Sec(ep, s).gh_info # U(0)

FailedWith(code) == last.res = DW_DLV_ERROR /\ last.errs = <<code>>

RecordsWhole(size, reclen) == DivMod(size, reclen)[2] = 0

SymtabReturned == last.op = "_dwarf_load_elf_symtab_symbols"

\* The size of the symbol table and of a relocation section s, and the
\* size of the records the call was to read there.
SymtabSize == Sec(ep, ep.f_symtab_sect_index).gh_size
RelxSize(s) == Sec(ep, s).gh_size
RelxRecLen ==
    RelocRecLen(IF ep.f_offsetsize = 64 THEN "RelocOffset64" ELSE "RelocOffset32",
                last.arg[3])

\* A symbol table of a size that is no multiple of the record size is
\* refused; after DW_DLV_OK f_loc_symtab.g_count is size / record size and
\* f_symtab holds that many records.
SymbolTableWhole ==
    /\ SymtabReturned /\ ep.f_symtab_sect_index # 0
       /\ ~RecordsWhole(SymtabSize, SizeofSym(ep.f_offsetsize))
       => FailedWith("DW_DLE_SECTION_SIZE_ERROR")
    /\ SymtabReturned /\ last.res = DW_DLV_OK
       => /\ ep.f_loc_symtab_g_count
                 = N(Div(SymtabSize, SizeofSym(ep.f_offsetsize)))
          /\ ~IsNull(ep.f_symtab)
          /\ Len(Deref(ep.f_symtab)) = ep.f_loc_symtab_g_count

\* After DW_DLV_OK on a relocation section that was read gh_relcount is
\* size / record size and gh_rels holds that many records.
RelocationsCounted ==
    RelxOnSection /\ last.res = DW_DLV_OK /\ last.reads # <<>>
    => LET s == last.arg[2]
       IN  /\ Sec(ep, s).gh_relcount = N(Div(RelxSize(s), RelxRecLen))
           /\ ~IsNull(Sec(ep, s).gh_rels)
           /\ Len(Deref(Sec(ep, s).gh_rels)) = Sec(ep, s).gh_relcount

\* Section s lies in the file.
SectionInFile(s) == ExactSumLe(Sec(ep, s).gh_offset, Sec(ep, s).gh_size, ep.f_filesize)

\* C25 (as stated): a symbol table or a relocation section whose size is
\* not an exact multiple of its record size is rejected with DW_DLV_ERROR
\* and DW_DLE_SECTION_SIZE_ERROR; on OK the stored count is size / record
\* size and that many generic records were produced.
C25_RecordTablesWhole ==
    /\ SymbolTableWhole
    /\ RelocationsCounted
    /\ RelxOnSection /\ IsRelocationSection(last.arg[2])
       /\ ~RecordsWhole(RelxSize(last.arg[2]), RelxRecLen)
       => FailedWith("DW_DLE_SECTION_SIZE_ERROR")

\* C25 (amended): the same, for the relocation sections that are
\* DWARF-related and lie in the file.
C25_ReadRecordTablesWhole ==
    /\ SymbolTableWhole
    /\ RelocationsCounted
    /\ RelxOnSection /\ DwarfRelated(last.arg[2]) /\ SectionInFile(last.arg[2])
       /\ ~RecordsWhole(RelxSize(last.arg[2]), RelxRecLen)
       => FailedWith("DW_DLE_SECTION_SIZE_ERROR")

\* A DWARF relocation section holding two records less a byte was refused.
C25_Witness ==
    /\ RelxOnSection /\ DwarfRelated(last.arg[2]) /\ SectionInFile(last.arg[2])
    /\ Gt(RelxSize(last.arg[2]), U(RelxRecLen))
    /\ ~RecordsWhole(RelxSize(last.arg[2]), RelxRecLen)
    /\ FailedWith("DW_DLE_SECTION_SIZE_ERROR")

(***************************************************************************)
(* Relocation state is written on success only.                            *)
(***************************************************************************)
\* A step that is a call of _dwarf_load_elf_relx.
RelxCall == pc = "symtab" /\ last'.op = "_dwarf_load_elf_relx"

\* C26: a call of _dwarf_load_elf_relx that returns DW_DLV_ERROR or
\* DW_DLV_NO_ENTRY leaves gh_rels and gh_relcount of every section as they
\* were; a call that returns DW_DLV_OK after reading records has set both
\* of its section, gh_relcount being the number of records gh_rels holds,
\* and those of no other section.
C26_RelocationStateOnSuccessOnly ==
    [][ RelxCall =>
          /\ last'.res \in {DW_DLV_ERROR, DW_DLV_NO_ENTRY} =>
                 \A t \in SectionNumbers :
                     /\ Sec(ep', t).gh_rels = Sec(ep, t).gh_rels
                     /\ Sec(ep', t).gh_relcount = Sec(ep, t).gh_relcount
          /\ last'.res = DW_DLV_OK /\ last'.reads # <<>> =>
                 /\ ~IsNull(Sec(ep', last'.arg[2]).gh_rels)
                 /\ Sec(ep', last'.arg[2]).gh_relcount
                        = Len(Deref(Sec(ep', last'.arg[2]).gh_rels))
                 /\ Sec(ep', last'.arg[2]).gh_relcount > 0
                 /\ \A t \in SectionNumbers \ {last'.arg[2]} :
                        /\ Sec(ep', t).gh_rels = Sec(ep, t).gh_rels
                        /\ Sec(ep', t).gh_relcount = Sec(ep, t).gh_relcount
      ]_vars

\* A call whose read of two whole records failed left the section without
\* records.
C26_Witness ==
    /\ RelxOnSection /\ DwarfRelated(last.arg[2])
    /\ RelxSize(last.arg[2]) = U(2 * RelxRecLen)
    /\ FailedWith("DW_DLE_READ_ERROR")
    /\ IsNull(Sec(ep, last.arg[2]).gh_rels)
    /\ Sec(ep, last.arg[2]).gh_relcount = 0

(***************************************************************************)
(* The two symbol-table loaders.                                           *)
(***************************************************************************)
\* The symbol loader of the object's offset size was called: there is a
\* symbol table and it is not larger than the file.
SymbolLoaderCalled ==
    /\ SymtabReturned
    /\ ep.f_symtab_sect_index # 0
    /\ Le(SymtabSize, ep.f_filesize)

\* C27: the status and the error code of a symbol-table load that fails
\* depend on the kind of the failure only, not on the offset size: a size
\* that is no multiple of the record size gives
\* DW_DLE_SECTION_SIZE_ERROR, a failed allocation DW_DLE_ALLOC_FAIL, and a
\* failed read the code the read primitive has set, each with
\* DW_DLV_ERROR.
C27_SymbolLoadersAgree ==
    SymbolLoaderCalled =>
        LET whole == RecordsWhole(SymtabSize, SizeofSym(ep.f_offsetsize))
        IN  /\ ~whole => FailedWith("DW_DLE_SECTION_SIZE_ERROR")
            /\ whole /\ last.res # DW_DLV_OK /\ last.reads = <<>>
                   => FailedWith("DW_DLE_ALLOC_FAIL")
            /\ whole /\ last.res # DW_DLV_OK /\ last.reads # <<>>
                   => /\ last.res = DW_DLV_ERROR
                      /\ Len(last.errs) = 1
                      /\ last.errs[1] \in ReadOrAllocFailures \ {"DW_DLE_ALLOC_FAIL"}
                      /\ errcode = last.errs[1]
====
